---- MODULE Spec2Model ----
(***************************************************************************)
(* A model of nani (src/nani.py): the schema type model, the validator,    *)
(* the consolidator, the dtype / default / view resolvers, the public API  *)
(* and the synthesized array and structure views over a caller's buffer.   *)
(*                                                                         *)
(* Python objects are tagged records (field k).  Immutable objects are     *)
(* values; the mutable objects whose identity matters (the lists given as  *)
(* Object defaults, the buffers and the view instances) live in stores     *)
(* indexed by an address, and are named by reference.                      *)
(***************************************************************************)
EXTENDS Integers, Sequences, FiniteSets, TLC

VARIABLES
    schema,         \* the schema tree the caller holds
    depth,          \* number of composite constructors applied to it
    call,           \* the last call of a function on it: arguments, output
    heap,           \* store of the mutable list objects: address -> items,
                    \* and of the iterators: address -> iterator
    classes,        \* number of view classes synthesized so far
    resolved,       \* the outputs of the resolve calls made so far
    mutations,      \* number of in-place changes the caller made to lists
    buffers,        \* the caller's buffers: address -> cells
    writes,         \* number of writes made to the buffers through views
    instances,      \* the view instances created so far
    last            \* the last operation on a list or on a view instance

vars == <<schema, depth, call, heap, classes, resolved, mutations, buffers,
          writes, instances, last>>

----------------------------------------------------------------------------
(* Bounds of the model. *)

MaxDepth == 2
MaxResolves == 2
MaxMutations == 1
MaxLength == 2
MaxInstances == 2
MaxWrites == 2
MaxIterators == 2
BufferLength == 2

----------------------------------------------------------------------------
(* Python values. *)

PyNone == [k |-> "None"]
PyInt(n) == [k |-> "int", v |-> n]
PyBool(b) == [k |-> "bool", v |-> b]
PyStr(s) == [k |-> "str", v |-> s]
PyBytes(s) == [k |-> "bytes", v |-> s]
PyTuple(items) == [k |-> "tuple", items |-> items]
PyList(items) == [k |-> "list", items |-> items]
PyClass(name) == [k |-> "class", name |-> name]
PyRef(a) == [k |-> "ref", a |-> a]

Nothing == [k |-> "nothing"]

----------------------------------------------------------------------------
(* The schema type model: nani.py, lines 51 to 319. *)

\* The namedtuple classes and their attribute names, in declaration order.
_ALL == <<"Bool", "Object", "Number", "String", "Unicode", "Array", "Structure">>
_FIXED_ATOMIC == {"Bool", "Object", "Number"}
_FLEXIBLE_ATOMIC == {"String", "Unicode"}
_ATOMIC == _FIXED_ATOMIC \cup _FLEXIBLE_ATOMIC

NodeFields(base) ==
    CASE base = "Bool" -> <<"default", "view">>
      [] base = "Object" -> <<"default", "view">>
      [] base = "Number" -> <<"type", "default", "view">>
      [] base = "String" -> <<"length", "default", "view">>
      [] base = "Unicode" -> <<"length", "default", "view">>
      [] base = "Array" -> <<"element_type", "shape", "name", "view">>
      [] base = "Structure" -> <<"fields", "name", "view">>

Bool(default, view_) ==
    [k |-> "node", cls |-> "Bool", default |-> default, view |-> view_]
Object(default, view_) ==
    [k |-> "node", cls |-> "Object", default |-> default, view |-> view_]
Number(type, default, view_) ==
    [k |-> "node", cls |-> "Number", type |-> type, default |-> default,
     view |-> view_]
String(length, default, view_) ==
    [k |-> "node", cls |-> "String", length |-> length, default |-> default,
     view |-> view_]
Unicode(length, default, view_) ==
    [k |-> "node", cls |-> "Unicode", length |-> length, default |-> default,
     view |-> view_]
Array(element_type, shape, name, view_) ==
    [k |-> "node", cls |-> "Array", element_type |-> element_type,
     shape |-> shape, name |-> name, view |-> view_]
Structure(fields, name, view_) ==
    [k |-> "node", cls |-> "Structure", fields |-> fields, name |-> name,
     view |-> view_]

\* An instance of a class that derives from the class of the node and adds
\* nothing to it.
Subtype(node, cls) == [node EXCEPT !.cls = cls]

\* An instance of class BoolNumber(Bool, Number): Bool makes it, a tuple of
\* a default and a view, and the one attribute it has from Number that Bool
\* does not define, type, reads the first item of that tuple.
BoolNumber(default, view_) ==
    [k |-> "node", cls |-> "BoolNumber", default |-> default,
     view |-> view_, type |-> default]

\* An instance of class Other(tuple), which is no data type.
Other == [k |-> "node", cls |-> "Other"]

\* A Field is a namedtuple, that is a tuple of a class of its own.
Field(name, type, read_only) ==
    [k |-> "Field", items |-> <<name, type, read_only>>]

\* Positions count from 1 here and from 0 in Python.
_FIELD_NAME == 1
_FIELD_TYPE == 2
_FIELD_READ_ONLY == 3
_FIELD_ATTRIBUTE_COUNT == 3
FieldDefaults == <<PyBool(FALSE)>>
_FIELD_EXPECTED_ARGUMENT_COUNTS ==
    (_FIELD_ATTRIBUTE_COUNT - Len(FieldDefaults)).._FIELD_ATTRIBUTE_COUNT

\* type(obj).__name__
TypeOf(obj) ==
    CASE obj.k = "None" -> "NoneType"
      [] obj.k = "node" -> obj.cls
      [] obj.k = "class" -> "type"
      [] obj.k = "ref" -> "list"
      [] obj.k = "np" -> obj.t
      [] OTHER -> obj.k

\* The method resolution order of a class, and the abstract base classes it
\* is registered with (numbers.Number for the Python and NumPy numbers).
Mro(c) ==
    CASE c \in {"Bool", "Object", "Number", "String", "Unicode", "Array",
                "Structure", "Field"} -> <<c, "tuple", "object">>
      [] c = "SubBool" -> <<"SubBool", "Bool", "tuple", "object">>
      [] c = "SubNumber" -> <<"SubNumber", "Number", "tuple", "object">>
      [] c = "SubArray" -> <<"SubArray", "Array", "tuple", "object">>
      [] c = "SubStructure" ->
            <<"SubStructure", "Structure", "tuple", "object">>
      [] c = "SubSubBool" ->
            <<"SubSubBool", "SubBool", "Bool", "tuple", "object">>
      [] c = "BoolNumber" ->
            <<"BoolNumber", "Bool", "Number", "tuple", "object">>
      [] c = "Other" -> <<"Other", "tuple", "object">>
      [] c = "bool" -> <<"bool", "int", "object">>
      [] c \in {"uint8", "int8", "float64"} ->
            <<c, "numpy.number", "numpy.generic", "object">>
      [] c \in {"bool_", "object_", "string_", "unicode_"} ->
            <<c, "numpy.generic", "object">>
      [] c = "object" -> <<"object">>
      [] OTHER -> <<c, "object">>

\* This variant leaves bool out of the numbers.
RegisteredApartFromBool(c) ==
    IF c \in {"int", "float", "complex", "uint8", "int8", "float64",
              "numpy.number"}
    THEN {"numbers.Number"} ELSE {}

Registered(c) ==
    IF c \in {"int", "bool", "float", "complex", "uint8", "int8",
              "float64", "numpy.number"}
    THEN {"numbers.Number"} ELSE {}

IsSubclass(c, types) ==
    \/ \E i \in 1..Len(Mro(c)) : Mro(c)[i] \in types
    \/ Registered(c) \cap types # {}

IsInstance(obj, types) == IsSubclass(TypeOf(obj), types)

_CLASS_TYPES == {"type"}
_STRING_TYPES == {"str"}
_NUMBER_TYPES == {"numbers.Number", "numpy.number"}
_SHAPE_TYPES == {"int", "tuple"}
_SEQUENCE_TYPES == {"list", "tuple"}
AllTypes == {_ALL[i] : i \in 1..Len(_ALL)}

_PREDEFINED_ATOMIC_NUMPY_TYPES(base) ==
    CASE base = "Bool" -> "bool_"
      [] base = "Object" -> "object_"
      [] base = "String" -> "string_"
      [] base = "Unicode" -> "unicode_"

\* This variant looks at the class of the node alone.
_find_base_type_exact(data_type) ==
    IF TypeOf(data_type) \in AllTypes THEN TypeOf(data_type) ELSE "None"

\* The first class of the node's ancestry that is one of nani's types.
_find_base_type(data_type) ==
    LET bases == Mro(TypeOf(data_type))
        hits == {i \in 1..Len(bases) : bases[i] \in AllTypes}
    IN IF hits = {} THEN "None"
       ELSE bases[CHOOSE i \in hits : \A j \in hits : i <= j]

IsAtomic(data_type) == IsInstance(data_type, _ATOMIC)
IsArray(data_type) == IsInstance(data_type, {"Array"})
IsStructure(data_type) == IsInstance(data_type, {"Structure"})

----------------------------------------------------------------------------
(* Exceptions: a call that raises yields the exception in place of a value. *)

\* msg names the message's template, path is the dotted path it is formatted
\* with (one entry per name), attr the attribute and names the other names.
Raise(exc, msg, path, attr, names) ==
    [k |-> "raise", exc |-> exc, msg |-> msg, path |-> path, attr |-> attr,
     names |-> names]
Raised(x) == x.k = "raise"
\* A value returned together with the heap the call leaves behind.
Ok(val, h) == [k |-> "ok", val |-> val, heap |-> h]
Unbound == Raise("UnboundLocalError", "out", <<>>, "", <<>>)

\* This variant gives the last exception of the sequence.
LastRaised(results) ==
    LET bad == {i \in 1..Len(results) : Raised(results[i])}
    IN IF bad = {} THEN Nothing
       ELSE results[CHOOSE i \in bad : \A j \in bad : i >= j]

\* The first exception of a sequence of results, if any.
FirstRaised(results) ==
    LET bad == {i \in 1..Len(results) : Raised(results[i])}
    IN IF bad = {} THEN Nothing
       ELSE results[CHOOSE i \in bad : \A j \in bad : i <= j]

----------------------------------------------------------------------------
(* The consolidator: nani.py, lines 881 to 918. *)

get_field_item(field, i) ==
    IF i <= Len(field.items)
    THEN field.items[i]
    ELSE LET j == Len(FieldDefaults) + i - _FIELD_ATTRIBUTE_COUNT
         IN IF j \in 1..Len(FieldDefaults) THEN FieldDefaults[j]
            ELSE Raise("IndexError", "tuple index out of range", <<>>, "",
                       <<>>)

RECURSIVE _consolidate(_)

\* Field(*(... for i in range(_FIELD_ATTRIBUTE_COUNT))) of lines 911 to 915.
\* This variant fills the defaults in without looking at the tuple's length.
ConsolidateFieldAppending(field) ==
    IF ~IsInstance(field, {"tuple"}) THEN Unbound
    ELSE LET items == [i \in 1..Len(field.items) |->
                          IF i = _FIELD_TYPE THEN _consolidate(field.items[i])
                          ELSE field.items[i]] \o FieldDefaults
         IN IF FirstRaised(items) # Nothing THEN FirstRaised(items)
            ELSE [k |-> "Field", items |-> items]

ConsolidateField(field) ==
    IF ~IsInstance(field, {"tuple"}) THEN Unbound
    ELSE LET items == [i \in 1.._FIELD_ATTRIBUTE_COUNT |->
                          IF i = _FIELD_TYPE
                          THEN LET item == get_field_item(field, i)
                               IN IF Raised(item) THEN item
                                  ELSE _consolidate(item)
                          ELSE get_field_item(field, i)]
         IN IF FirstRaised(items) # Nothing THEN FirstRaised(items)
            ELSE [k |-> "Field", items |-> items]

_consolidate(data_type) ==
    IF IsAtomic(data_type) THEN data_type
    ELSE IF IsArray(data_type)
    THEN LET element_type == _consolidate(data_type.element_type)
         IN IF Raised(element_type) THEN element_type
            ELSE [data_type EXCEPT !.element_type = element_type]
    ELSE IF IsStructure(data_type)
    THEN IF ~IsInstance(data_type.fields, _SEQUENCE_TYPES)
         THEN Raise("TypeError", "not iterable", <<>>, "fields", <<>>)
         ELSE LET fields == [i \in 1..Len(data_type.fields.items) |->
                                ConsolidateField(data_type.fields.items[i])]
              IN IF FirstRaised(fields) # Nothing THEN FirstRaised(fields)
                 ELSE [data_type EXCEPT !.fields = PyTuple(fields)]
    ELSE Unbound

----------------------------------------------------------------------------
(* The validator: nani.py, lines 322 to 377 and 726 to 878. *)

_FieldInstanceCheck(name, type, allow_none) ==
    [check |-> "instance", name |-> name, type |-> type,
     allow_none |-> allow_none]
_FieldSubclassCheck(name, type, allow_none) ==
    [check |-> "subclass", name |-> name, type |-> type,
     allow_none |-> allow_none]

ViewCheck == _FieldSubclassCheck("view", {"object"}, TRUE)

_TYPE_ATTRIBUTE_CHECKS(base) ==
    CASE base = "Bool" ->
            <<_FieldInstanceCheck("default", {"bool"}, FALSE), ViewCheck>>
      [] base = "Object" ->
            <<_FieldInstanceCheck("default", {"object"}, TRUE), ViewCheck>>
      [] base = "Number" ->
            <<_FieldSubclassCheck("type", _NUMBER_TYPES, FALSE),
              _FieldInstanceCheck("default", _NUMBER_TYPES, FALSE),
              ViewCheck>>
      [] base = "String" ->
            <<_FieldInstanceCheck("length", {"int"}, FALSE),
              _FieldInstanceCheck("default", {"bytes"}, FALSE), ViewCheck>>
      [] base = "Unicode" ->
            <<_FieldInstanceCheck("length", {"int"}, FALSE),
              _FieldInstanceCheck("default", {"str"}, FALSE), ViewCheck>>
      [] base = "Array" ->
            <<_FieldInstanceCheck("element_type", AllTypes, FALSE),
              _FieldInstanceCheck("shape", _SHAPE_TYPES, FALSE),
              _FieldInstanceCheck("name", _STRING_TYPES, TRUE), ViewCheck>>
      [] base = "Structure" ->
            <<_FieldInstanceCheck("fields", _SEQUENCE_TYPES, FALSE),
              _FieldInstanceCheck("name", _STRING_TYPES, TRUE), ViewCheck>>

\* Python's truth value of an object.
Truthy(obj) ==
    CASE obj.k = "None" -> FALSE
      [] obj.k = "str" -> obj.v # ""
      [] obj.k = "bytes" -> obj.v # ""
      [] obj.k = "bool" -> obj.v
      [] obj.k \in {"int", "float"} -> obj.v # 0
      [] obj.k \in {"tuple", "list", "Field"} -> obj.items # <<>>
      [] OTHER -> TRUE

\* str.format of an object inside a dotted path.
NameOf(obj) ==
    CASE obj.k = "str" -> obj.v
      [] obj.k = "class" -> obj.name
      [] OTHER -> TypeOf(obj)

\* Lines 745 to 747: every occurrence of a name that occurs more than once.
\* This variant reports a name only from its third occurrence on.
find_duplicate_fields_thrice(fields) ==
    LET field_names == [i \in 1..Len(fields) |-> fields[i].items[_FIELD_NAME]]
        count(item) ==
            Cardinality({i \in 1..Len(field_names) : field_names[i] = item})
    IN SelectSeq(field_names, LAMBDA item : count(item) > 2)

find_duplicate_fields(fields) ==
    LET field_names == [i \in 1..Len(fields) |-> fields[i].items[_FIELD_NAME]]
        count(item) ==
            Cardinality({i \in 1..Len(field_names) : field_names[i] = item})
    IN SelectSeq(field_names, LAMBDA item : count(item) > 1)

\* Lines 778 to 815: one attribute against its contract.
CheckAttribute(data_type, check, full_path) ==
    LET attribute == data_type[check.name]
    IN IF attribute = PyNone
       THEN IF check.allow_none THEN Nothing
            ELSE Raise("TypeError", "cannot be None", full_path, check.name,
                       <<>>)
       ELSE IF check.check = "subclass" /\ ~IsInstance(attribute, _CLASS_TYPES)
       THEN Raise("TypeError", "expected a class object", full_path,
                  check.name, <<>>)
       ELSE IF check.check = "instance" /\ ~IsInstance(attribute, check.type)
       THEN Raise("TypeError", "expected an instance object of type",
                  full_path, check.name, <<TypeOf(attribute)>>)
       ELSE IF check.check = "subclass"
               /\ ~IsSubclass(attribute.name, check.type)
       THEN Raise("TypeError", "expected a subclass of", full_path,
                  check.name, <<attribute.name>>)
       ELSE Nothing

RECURSIVE _check_data_type(_, _)

\* This variant leaves the type of a field to the check of the field's type.
CheckFieldLeavingType(field, full_path) ==
    IF ~IsInstance(field, {"tuple"})
    THEN Raise("TypeError", "field expected to be a tuple", full_path,
               "fields", <<TypeOf(field)>>)
    ELSE IF Len(field.items) \notin _FIELD_EXPECTED_ARGUMENT_COUNTS
    THEN Raise("TypeError", "field expected to be compatible with Field",
               full_path, "fields", <<>>)
    ELSE IF ~IsInstance(get_field_item(field, _FIELD_NAME), _STRING_TYPES)
    THEN Raise("TypeError", "field name expected to be a string", full_path,
               "fields", <<TypeOf(get_field_item(field, _FIELD_NAME))>>)
    ELSE IF ~IsInstance(get_field_item(field, _FIELD_READ_ONLY), {"bool"})
    THEN Raise("TypeError", "field read_only expected to be a bool",
               full_path, "fields",
               <<TypeOf(get_field_item(field, _FIELD_READ_ONLY))>>)
    ELSE _check_data_type(
             get_field_item(field, _FIELD_TYPE),
             Append(full_path, NameOf(get_field_item(field, _FIELD_NAME))))

\* Lines 821 to 865: one field of a structure, then the field's type.
CheckField(field, full_path) ==
    IF ~IsInstance(field, {"tuple"})
    THEN Raise("TypeError", "field expected to be a tuple", full_path,
               "fields", <<TypeOf(field)>>)
    ELSE IF Len(field.items) \notin _FIELD_EXPECTED_ARGUMENT_COUNTS
    THEN Raise("TypeError", "field expected to be compatible with Field",
               full_path, "fields", <<>>)
    ELSE IF ~IsInstance(get_field_item(field, _FIELD_NAME), _STRING_TYPES)
    THEN Raise("TypeError", "field name expected to be a string", full_path,
               "fields", <<TypeOf(get_field_item(field, _FIELD_NAME))>>)
    ELSE IF ~IsInstance(get_field_item(field, _FIELD_TYPE), AllTypes)
    THEN Raise("TypeError", "field type expected to be a data type",
               full_path, "fields",
               <<TypeOf(get_field_item(field, _FIELD_TYPE))>>)
    ELSE IF ~IsInstance(get_field_item(field, _FIELD_READ_ONLY), {"bool"})
    THEN Raise("TypeError", "field read_only expected to be a bool",
               full_path, "fields",
               <<TypeOf(get_field_item(field, _FIELD_READ_ONLY))>>)
    ELSE _check_data_type(
             get_field_item(field, _FIELD_TYPE),
             Append(full_path, NameOf(get_field_item(field, _FIELD_NAME))))

_check_data_type(data_type, parent_path) ==
    IF IsInstance(data_type, _CLASS_TYPES)
    THEN IF parent_path # <<>>
         THEN Raise("TypeError", "data type for path expected an instance",
                    parent_path, "", <<data_type.name>>)
         ELSE Raise("TypeError", "data type expected an instance", <<>>, "",
                    <<data_type.name>>)
    ELSE
    LET base == _find_base_type(data_type) IN
    IF base = "None"
    THEN Raise("TypeError", "type not supported", <<>>, "",
               <<TypeOf(data_type)>>)
    ELSE
    LET given == IF "name" \in DOMAIN data_type THEN data_type.name
                 ELSE PyNone
        name == IF Truthy(given) THEN NameOf(given) ELSE TypeOf(data_type)
        full_path == Append(parent_path, name)
        checks == _TYPE_ATTRIBUTE_CHECKS(base)
        generic == FirstRaised([i \in 1..Len(checks) |->
                       CheckAttribute(data_type, checks[i], full_path)])
    IN
    IF generic # Nothing THEN generic
    ELSE IF IsArray(data_type)
    THEN _check_data_type(data_type.element_type, full_path)
    ELSE IF IsStructure(data_type)
    THEN LET fields == data_type.fields.items
             each == FirstRaised([i \in 1..Len(fields) |->
                         CheckField(fields[i], full_path)])
             duplicates == find_duplicate_fields(fields)
         IN IF each # Nothing THEN each
            ELSE IF duplicates = <<>> THEN Nothing
            ELSE IF Len(duplicates) > 1
            THEN Raise("ValueError", "fields provided multiple times", <<>>,
                       "", duplicates)
            ELSE Raise("ValueError", "field provided multiple times", <<>>,
                       "", <<duplicates[1]>>)
    ELSE Nothing

\* field.name, field.type and field.read_only: attributes that a Field has
\* and a plain tuple has not.
FieldAttr(field, i) ==
    IF field.k = "Field" THEN field.items[i]
    ELSE Raise("AttributeError", "no such attribute", <<>>, "", <<>>)

----------------------------------------------------------------------------
(* The dtype resolver: nani.py, lines 921 to 951 and 1146 to 1163. *)

_get_atomic_dtype(data_type) ==
    LET atomic_type == IF "type" \in DOMAIN data_type THEN data_type.type
                       ELSE PyNone
    IN IF atomic_type # PyNone THEN atomic_type
       ELSE IF _find_base_type(data_type) \in {"Bool", "Object", "String",
                                               "Unicode"}
       THEN PyClass(_PREDEFINED_ATOMIC_NUMPY_TYPES(_find_base_type(data_type)))
       ELSE Raise("KeyError", "no predefined type", <<>>, "", <<>>)

\* Lines 939 to 944: a tuple of one entry is replaced by its entry.
\* This variant leaves every shape as it is given.
CollapseShapeNever(shape) == shape

CollapseShape(shape) ==
    IF IsInstance(shape, {"tuple"}) /\ Len(shape.items) = 1
    THEN shape.items[1]
    ELSE shape

RECURSIVE _resolve_dtype(_)
_resolve_dtype(data_type) ==
    IF IsInstance(data_type, _FIXED_ATOMIC)
    THEN _get_atomic_dtype(data_type)
    ELSE IF IsInstance(data_type, _FLEXIBLE_ATOMIC)
    THEN LET atomic == _get_atomic_dtype(data_type)
         IN IF Raised(atomic) THEN atomic
            ELSE PyTuple(<<atomic, data_type.length>>)
    ELSE IF IsArray(data_type)
    THEN LET element == _resolve_dtype(data_type.element_type)
         IN IF Raised(element) THEN element
            ELSE PyTuple(<<element, CollapseShape(data_type.shape)>>)
    ELSE IF IsStructure(data_type)
    THEN LET fields == data_type.fields.items
             pairs == [i \in 1..Len(fields) |->
                          IF Raised(FieldAttr(fields[i], _FIELD_NAME))
                          THEN FieldAttr(fields[i], _FIELD_NAME)
                          ELSE
                          LET field == _resolve_dtype(
                                           FieldAttr(fields[i], _FIELD_TYPE))
                          IN IF Raised(field) THEN field
                             ELSE PyTuple(<<FieldAttr(fields[i], _FIELD_NAME),
                                            field>>)]
         IN IF FirstRaised(pairs) # Nothing THEN FirstRaised(pairs)
            ELSE PyList(pairs)
    ELSE Unbound

----------------------------------------------------------------------------
(* The default resolver: nani.py, lines 954 to 1009. *)

IntWidth(t) == CASE t = "uint8" -> 8 [] t = "int8" -> 8 [] OTHER -> 0

\* numpy_type(value): the value in the representation of the NumPy type.
\* Integers keep the width of the type, the two's complement way.
Coerce(t, value) ==
    LET n == CASE value.k \in {"int", "float"} -> value.v
               [] value.k = "bool" -> IF value.v THEN 1 ELSE 0
               [] OTHER -> 0
        w == IntWidth(t)
    IN CASE value.k \in {"str", "bytes"} /\ t \in {"string_", "unicode_"} ->
               [k |-> "npstr", t |-> t, v |-> value.v]
         [] value.k \in {"int", "float", "bool"} /\ t = "bool_" ->
               [k |-> "np", t |-> t, v |-> IF n # 0 THEN 1 ELSE 0]
         [] value.k \in {"int", "float", "bool"} /\ t = "uint8" ->
               [k |-> "np", t |-> t, v |-> n % (2 ^ w)]
         [] value.k \in {"int", "float", "bool"} /\ t = "int8" ->
               [k |-> "np", t |-> t,
                v |-> ((n + 2 ^ (w - 1)) % (2 ^ w)) - 2 ^ (w - 1)]
         [] value.k \in {"int", "float", "bool"} /\ t = "bool" ->
               [k |-> "np", t |-> t, v |-> IF n # 0 THEN 1 ELSE 0]
         [] value.k \in {"int", "float", "bool"}
            /\ t \in {"float64", "float", "int", "complex"} ->
               [k |-> "np", t |-> t, v |-> n]
         [] OTHER -> Raise("TypeError", "cannot convert", <<>>, "", <<t>>)

\* copy.deepcopy: every list object met is copied once into a new cell of
\* the heap (memo maps the cells copied so far to their copies); immutable
\* values are returned as they are.  st is [heap, memo].
RECURSIVE DeepCopyWalk(_, _)
RECURSIVE DeepCopyItems(_, _, _)

DeepCopyItems(items, done, st) ==
    IF Len(done) = Len(items) THEN [val |-> done, st |-> st]
    ELSE LET r == DeepCopyWalk(items[Len(done) + 1], st)
         IN DeepCopyItems(items, Append(done, r.val), r.st)

DeepCopyWalk(value, st) ==
    IF value.k = "ref"
    THEN IF \E p \in st.memo : p[1] = value.a
         THEN [val |-> PyRef((CHOOSE p \in st.memo : p[1] = value.a)[2]),
               st |-> st]
         ELSE LET new == Len(st.heap) + 1
              IN [val |-> PyRef(new),
                  st |-> [heap |-> Append(st.heap, st.heap[value.a]),
                          memo |-> st.memo \cup {<<value.a, new>>}]]
    ELSE IF value.k \in {"tuple", "list", "struct"}
    THEN LET r == DeepCopyItems(value.items, <<>>, st)
         IN [val |-> [value EXCEPT !.items = r.val], st |-> r.st]
    ELSE [val |-> value, st |-> st]

\* This variant hands the object itself back, as a shallow repetition does.
DeepCopyShared(value, h) == [val |-> value, heap |-> h]

DeepCopy(value, h) ==
    LET r == DeepCopyWalk(value, [heap |-> h, memo |-> {}])
    IN [val |-> r.val, heap |-> r.st.heap]

\* Lines 990 and 991.  This variant puts the one object at every place.
RepeatShared(default, length, done, h) ==
    [val |-> [i \in 1..length |-> default], heap |-> h]

\* Sequence(copy.deepcopy(default) for _ in range(length)), lines 990, 991.
RECURSIVE Repeat(_, _, _, _)
Repeat(default, length, done, h) ==
    IF Len(done) >= length THEN [val |-> done, heap |-> h]
    ELSE LET r == DeepCopy(default, h)
         IN Repeat(default, length, Append(done, r.val), r.heap)

\* functools.reduce over the shape, lines 989 to 994.
RECURSIVE ReduceShape(_, _, _, _, _)
ReduceShape(shape, i, default, listify, h) ==
    IF i > Len(shape) THEN Ok(default, h)
    ELSE IF ~IsInstance(shape[i], {"int"})
    THEN Raise("TypeError", "cannot be interpreted as an integer", <<>>,
               "shape", <<TypeOf(shape[i])>>)
    ELSE LET length == IF shape[i].k = "bool"
                       THEN (IF shape[i].v THEN 1 ELSE 0) ELSE shape[i].v
             r == Repeat(default, length, <<>>, h)
         IN ReduceShape(shape, i + 1,
                        IF listify THEN PyList(r.val) ELSE PyTuple(r.val),
                        listify, r.heap)

\* collections.OrderedDict of (name, value) pairs: a name met again keeps
\* its place and takes the later value.
RECURSIVE OrderedDict(_, _, _)
OrderedDict(names, values, i) ==
    IF i = 0 THEN [keys |-> <<>>, values |-> <<>>]
    ELSE LET d == OrderedDict(names, values, i - 1)
             at == {j \in 1..Len(d.keys) : d.keys[j] = names[i]}
         IN IF at = {}
            THEN [keys |-> Append(d.keys, names[i]),
                  values |-> Append(d.values, values[i])]
            ELSE [keys |-> d.keys,
                  values |-> [d.values EXCEPT ![CHOOSE j \in at : TRUE] =
                                                  values[i]]]

\* The strings that collections.namedtuple refuses as names: the ones that
\* are no identifier, the keywords and, for a field, the ones that start
\* with an underscore.
NonIdentifiers == {"", "my struct"}
Keywords == {"class"}
Underscored == {"_id"}

\* This variant makes the named tuple of the fields in alphabetical order,
\* as a plain dict of keyword arguments once held them.
namedtupleSorted(name, field_names, values) ==
    LET Before(a, b) == \/ a.v = "a" /\ b.v # "a"
                        \/ a.v = "b" /\ b.v \notin {"a", "b"}
                        \/ a.v = "id" /\ b.v \notin {"a", "b", "id"}
        rank(i) == 1 + Cardinality({j \in 1..Len(field_names) :
                                      \/ Before(field_names[j], field_names[i])
                                      \/ /\ ~Before(field_names[i],
                                                    field_names[j])
                                         /\ j < i})
        at(r) == CHOOSE i \in 1..Len(field_names) : rank(i) = r
    IN [k |-> "struct", name |-> name,
        names |-> [r \in 1..Len(field_names) |-> field_names[at(r)]],
        items |-> [r \in 1..Len(field_names) |-> values[at(r)]]]

\* collections.namedtuple(name, field_names)(**field_defaults), lines 1006
\* and 1007.  name is 'StructureDefault' and what is appended to it.
namedtuple(name, field_names, values) ==
    LET text(n) == IF field_names[n].k = "str" THEN field_names[n].v ELSE ""
        refused(message) == Raise("ValueError", message, <<>>, "", <<>>)
    IN IF \E n \in 2..Len(name) : name[n] \in NonIdentifiers
       THEN refused("names must be valid identifiers")
       ELSE IF \E n \in 1..Len(field_names) : text(n) \in NonIdentifiers
       THEN refused("names must be valid identifiers")
       ELSE IF \E n \in 1..Len(field_names) : text(n) \in Keywords
       THEN refused("names cannot be a keyword")
       ELSE IF \E n \in 1..Len(field_names) : text(n) \in Underscored
       THEN refused("field names cannot start with an underscore")
       ELSE [k |-> "struct", name |-> name, names |-> field_names,
             items |-> values]

RECURSIVE _resolve_default(_, _, _)
RECURSIVE ResolveFieldDefaults(_, _, _, _)

\* Lines 997, 998 and 1001, 1002: the fields' defaults, in field order.
ResolveFieldDefaults(fields, done, listify, h) ==
    IF Len(done) = Len(fields) THEN Ok(done, h)
    ELSE LET type == FieldAttr(fields[Len(done) + 1], _FIELD_TYPE)
         IN IF Raised(type) THEN type
            ELSE LET r == _resolve_default(type, listify, h)
                 IN IF Raised(r) THEN r
                    ELSE ResolveFieldDefaults(fields, Append(done, r.val),
                                              listify, r.heap)

_resolve_default(data_type, listify, h) ==
    IF IsAtomic(data_type)
    THEN IF IsInstance(data_type, {"Object"})
         THEN Ok(data_type.default, h)
         ELSE LET atomic == _get_atomic_dtype(data_type)
                  out == IF Raised(atomic) THEN atomic
                         ELSE IF atomic.k # "class"
                         THEN Raise("TypeError", "object is not callable",
                                    <<>>, "", <<TypeOf(atomic)>>)
                         ELSE Coerce(atomic.name, data_type.default)
              IN IF Raised(out) THEN out ELSE Ok(out, h)
    ELSE IF IsArray(data_type)
    THEN LET element_default ==
                 _resolve_default(data_type.element_type, listify, h)
             shape == IF IsInstance(data_type.shape, {"int"})
                      THEN <<data_type.shape>>
                      ELSE data_type.shape.items
         IN IF Raised(element_default) THEN element_default
            ELSE ReduceShape(shape, 1, element_default.val, listify,
                             element_default.heap)
    ELSE IF IsStructure(data_type)
    THEN LET fields == data_type.fields.items
             r == ResolveFieldDefaults(fields, <<>>, listify, h)
         IN IF Raised(r) THEN r
            ELSE IF listify THEN Ok(PyList(r.val), r.heap)
            ELSE LET names == [i \in 1..Len(fields) |->
                                  FieldAttr(fields[i], _FIELD_NAME)]
                     field_defaults == OrderedDict(names, r.val, Len(names))
                     name == IF Truthy(data_type.name)
                             THEN <<"StructureDefault", NameOf(data_type.name)>>
                             ELSE <<"StructureDefault">>
                     struct == namedtuple(name, field_defaults.keys,
                                          field_defaults.values)
                 IN IF Raised(struct) THEN struct ELSE Ok(struct, r.heap)
    ELSE Unbound

----------------------------------------------------------------------------
(* The view resolver: nani.py, lines 1012 to 1143. *)

\* type(name, (), attributes) makes a new class object on every call: n
\* counts the classes made so far and gives each its identity.
Made(val, n) == [k |-> "ok", val |-> val, n |-> n]

\* _get_mixin_attributes(mixins): the methods come from the one mixin.
\* This variant hands out the class it made before when asked for a class
\* of the same make.
SynthesizedClassCached(name, n, mixin, element_view, fields, props) ==
    [k |-> "class", name |-> name, id |-> 0, mixin |-> mixin,
     _element_view |-> element_view, _fields |-> fields, props |-> props]

SynthesizedClass(name, n, mixin, element_view, fields, props) ==
    [k |-> "class", name |-> name, id |-> n, mixin |-> mixin,
     _element_view |-> element_view, _fields |-> fields, props |-> props]

RECURSIVE _resolve_view(_, _)
RECURSIVE ResolveFieldViews(_, _, _)

\* This variant chooses the mixin by the kind of the element alone.
_define_array_view_by_kind(data_type, n) ==
    LET element_type == data_type.element_type
        element_view == _resolve_view(element_type, n)
        name == IF Truthy(data_type.name) THEN NameOf(data_type.name)
                ELSE "ArrayView"
    IN IF Raised(element_view) THEN element_view
       ELSE IF IsAtomic(element_type)
       THEN Made(SynthesizedClass(name, element_view.n + 1,
                                  "_DirectArrayViewMixin", Nothing, <<>>,
                                  <<>>),
                 element_view.n + 1)
       ELSE Made(SynthesizedClass(name, element_view.n + 1,
                                  "_IndirectCompositeArrayViewMixin",
                                  element_view.val, <<>>, <<>>),
                 element_view.n + 1)

_define_array_view(data_type, n) ==
    LET element_type == data_type.element_type
        element_view == _resolve_view(element_type, n)
        name == IF Truthy(data_type.name) THEN NameOf(data_type.name)
                ELSE "ArrayView"
    IN IF Raised(element_view) THEN element_view
       ELSE IF element_view.val = PyNone
       THEN Made(SynthesizedClass(name, element_view.n + 1,
                                  "_DirectArrayViewMixin", Nothing, <<>>,
                                  <<>>),
                 element_view.n + 1)
       ELSE IF IsAtomic(element_type)
       THEN Made(SynthesizedClass(name, element_view.n + 1,
                                  "_IndirectAtomicArrayViewMixin",
                                  element_view.val, <<>>, <<>>),
                 element_view.n + 1)
       ELSE Made(SynthesizedClass(name, element_view.n + 1,
                                  "_IndirectCompositeArrayViewMixin",
                                  element_view.val, <<>>, <<>>),
                 element_view.n + 1)

\* Line 1106: the views of the fields' types, in field order.
ResolveFieldViews(fields, done, n) ==
    IF Len(done) = Len(fields) THEN Made(done, n)
    ELSE LET type == FieldAttr(fields[Len(done) + 1], _FIELD_TYPE)
         IN IF Raised(type) THEN type
            ELSE LET r == _resolve_view(type, n)
                 IN IF Raised(r) THEN r
                    ELSE ResolveFieldViews(fields, Append(done, r.val), r.n)

\* Lines 1087 to 1098.  This variant gives every field the getter that
\* returns the cell as it is.
_define_getter_verbatim(field_index, field_type, field_view) == "direct"

\* Lines 1087 to 1098: which of the three getters a field is given.
_define_getter(field_index, field_type, field_view) ==
    IF field_view = PyNone THEN "direct"
    ELSE IF IsAtomic(field_type) THEN "atomic"
    ELSE "composite"

\* Lines 1100 to 1104.  This variant gives every field a setter.
_define_setter_always(field_index, read_only) == TRUE

\* Whether the field's property has a setter.
_define_setter(field_index, read_only) == ~Truthy(read_only)

_define_structure_view(data_type, n) ==
    LET fields == data_type.fields.items
        field_views == ResolveFieldViews(fields, <<>>, n)
        name == IF Truthy(data_type.name) THEN NameOf(data_type.name)
                ELSE "StructureView"
    IN IF Raised(field_views) THEN field_views
       ELSE Made(SynthesizedClass(
                     name, field_views.n + 1, "_StructuredViewMixin", Nothing,
                     [i \in 1..Len(fields) |-> fields[i].items[_FIELD_NAME]],
                     [i \in 1..Len(fields) |->
                         [name |-> fields[i].items[_FIELD_NAME],
                          index |-> i,
                          fget |-> _define_getter(
                                       i, fields[i].items[_FIELD_TYPE],
                                       field_views.val[i]),
                          field_view |-> field_views.val[i],
                          fset |-> _define_setter(
                                       i, fields[i].items[_FIELD_READ_ONLY])]]),
                 field_views.n + 1)

\* This variant wraps a view the node names in a class of its own making.
_resolve_view_wrapping(data_type, n) ==
    LET given == IF "view" \in DOMAIN data_type THEN data_type.view
                 ELSE PyNone
    IN IF given # PyNone
       THEN Made(SynthesizedClass("ArrayView", n + 1,
                                  "_IndirectAtomicArrayViewMixin", given,
                                  <<>>, <<>>),
                 n + 1)
       ELSE IF IsAtomic(data_type) THEN Made(PyNone, n)
       ELSE IF IsArray(data_type) THEN _define_array_view(data_type, n)
       ELSE IF IsStructure(data_type) THEN _define_structure_view(data_type, n)
       ELSE Unbound

_resolve_view(data_type, n) ==
    LET given == IF "view" \in DOMAIN data_type THEN data_type.view
                 ELSE PyNone
    IN IF given # PyNone THEN Made(given, n)
       ELSE IF IsAtomic(data_type) THEN Made(PyNone, n)
       ELSE IF IsArray(data_type) THEN _define_array_view(data_type, n)
       ELSE IF IsStructure(data_type) THEN _define_structure_view(data_type, n)
       ELSE Unbound

----------------------------------------------------------------------------
(* The public API: nani.py, lines 546 to 723. *)

Nani(dtype, default, view_) ==
    [k |-> "Nani", dtype |-> dtype, default |-> default, view |-> view_]

\* numpy.dtype(...) is the array library's: the descriptor is kept as given.
NumpyDtype(descriptor) == [k |-> "dtype", descriptor |-> descriptor]

\* This variant asks for the view of the data type itself, not of an array
\* of it.
resolveUnwrapped(data_type, name, listify_default, check, h, n) ==
    LET error == IF check THEN _check_data_type(data_type, <<>>) ELSE Nothing
        tree == _consolidate(data_type)
        descriptor == _resolve_dtype(tree)
        default == _resolve_default(tree, listify_default, h)
        made == _resolve_view(tree, n)
    IN IF error # Nothing THEN [out |-> error, heap |-> h, n |-> n]
       ELSE IF Raised(tree) THEN [out |-> tree, heap |-> h, n |-> n]
       ELSE IF Raised(descriptor)
       THEN [out |-> descriptor, heap |-> h, n |-> n]
       ELSE IF Raised(default) THEN [out |-> default, heap |-> h, n |-> n]
       ELSE IF Raised(made)
       THEN [out |-> made, heap |-> default.heap, n |-> n]
       ELSE [out |-> Nani(NumpyDtype(descriptor), default.val, made.val),
             heap |-> default.heap, n |-> made.n]

\* This variant gives the array it wraps the data type in to the three
\* resolvers.
resolveWrapped(data_type, name, listify_default, check, h, n) ==
    LET error == IF check THEN _check_data_type(data_type, <<>>) ELSE Nothing
        tree == _consolidate(data_type)
        wrapped == Array(tree, PyInt(-1), name, PyNone)
        descriptor == _resolve_dtype(wrapped)
        default == _resolve_default(wrapped, listify_default, h)
        made == _resolve_view(wrapped, n)
    IN IF error # Nothing THEN [out |-> error, heap |-> h, n |-> n]
       ELSE IF Raised(tree) THEN [out |-> tree, heap |-> h, n |-> n]
       ELSE IF Raised(descriptor)
       THEN [out |-> descriptor, heap |-> h, n |-> n]
       ELSE IF Raised(default) THEN [out |-> default, heap |-> h, n |-> n]
       ELSE IF Raised(made)
       THEN [out |-> made, heap |-> default.heap, n |-> n]
       ELSE [out |-> Nani(NumpyDtype(descriptor), default.val, made.val),
             heap |-> default.heap, n |-> made.n]

\* This variant checks the data type after it has built the three results.
resolveCheckingLast(data_type, name, listify_default, check, h, n) ==
    LET error == IF check THEN _check_data_type(data_type, <<>>) ELSE Nothing
        tree == _consolidate(data_type)
        descriptor == _resolve_dtype(tree)
        default == _resolve_default(tree, listify_default, h)
        made == _resolve_view(Array(tree, PyInt(-1), name, PyNone), n)
    IN IF Raised(tree) THEN [out |-> tree, heap |-> h, n |-> n]
       ELSE IF Raised(descriptor)
       THEN [out |-> descriptor, heap |-> h, n |-> n]
       ELSE IF Raised(default) THEN [out |-> default, heap |-> h, n |-> n]
       ELSE IF Raised(made)
       THEN [out |-> made, heap |-> default.heap, n |-> n]
       ELSE IF error # Nothing
       THEN [out |-> error, heap |-> default.heap, n |-> made.n]
       ELSE [out |-> Nani(NumpyDtype(descriptor), default.val, made.val),
             heap |-> default.heap, n |-> made.n]

\* resolve(data_type, name, listify_default, check) with the heap h and n
\* classes made so far; the result carries the heap and the count it leaves.
resolve(data_type, name, listify_default, check, h, n) ==
    LET error == IF check THEN _check_data_type(data_type, <<>>) ELSE Nothing
        tree == _consolidate(data_type)
        descriptor == _resolve_dtype(tree)
        default == _resolve_default(tree, listify_default, h)
        made == _resolve_view(Array(tree, PyInt(-1), name, PyNone), n)
    IN IF error # Nothing THEN [out |-> error, heap |-> h, n |-> n]
       ELSE IF Raised(tree) THEN [out |-> tree, heap |-> h, n |-> n]
       ELSE IF Raised(descriptor)
       THEN [out |-> descriptor, heap |-> h, n |-> n]
       ELSE IF Raised(default) THEN [out |-> default, heap |-> h, n |-> n]
       ELSE IF Raised(made)
       THEN [out |-> made, heap |-> default.heap, n |-> n]
       ELSE [out |-> Nani(NumpyDtype(descriptor), default.val, made.val),
             heap |-> default.heap, n |-> made.n]

\* data_type._replace(**kwargs): kwargs is a sequence of (name, value)
\* pairs.  The result holds the argument as the call leaves it (arg) and
\* the node returned (out).
\* This variant changes the node in place and returns it.
updateInPlace(data_type, kwargs) ==
    LET names == {kwargs[i][1] : i \in 1..Len(kwargs)}
        value(name) ==
            kwargs[CHOOSE i \in 1..Len(kwargs) : kwargs[i][1] = name][2]
        out == [a \in DOMAIN data_type |->
                   IF a \in names THEN value(a) ELSE data_type[a]]
    IN [arg |-> out, out |-> out]

update(data_type, kwargs) ==
    LET names == {kwargs[i][1] : i \in 1..Len(kwargs)}
        value(name) ==
            kwargs[CHOOSE i \in 1..Len(kwargs) : kwargs[i][1] = name][2]
        known == {NodeFields(_find_base_type(data_type))[i] :
                     i \in 1..Len(NodeFields(_find_base_type(data_type)))}
    IN IF ~(names \subseteq known)
       THEN [arg |-> data_type,
             out |-> Raise("ValueError", "unexpected field names", <<>>, "",
                           <<>>)]
       ELSE [arg |-> data_type,
             out |-> [a \in DOMAIN data_type |->
                         IF a \in names THEN value(a) ELSE data_type[a]]]

get_data(instance) ==
    IF "_data" \in DOMAIN instance THEN instance._data ELSE PyNone

get_element_view(view_) ==
    IF "_element_view" \in DOMAIN view_ /\ view_._element_view # Nothing
    THEN view_._element_view
    ELSE PyNone

----------------------------------------------------------------------------
(* The caller composing a schema and calling the functions on it. *)

\* The list object [] the caller gives as an Object default lives at
\* address 1 of the heap.
InitialHeap == << <<>> >>
MutableDefault == PyRef(1)

Atomics ==
    { Bool(PyBool(FALSE), PyNone),
      Object(PyNone, PyNone),
      Object(MutableDefault, PyNone),
      Number(PyClass("uint8"), PyInt(-1), PyNone),
      Number(PyClass("float64"), PyInt(0), PyClass("Flag")),
      String(PyInt(2), PyBytes(""), PyNone) }

Shapes ==
    { PyInt(2), PyTuple(<<PyInt(2)>>), PyTuple(<<PyInt(1), PyInt(2)>>),
      PyTuple(<<>>) }

\* The field lists the caller writes around a type: plain tuples of two and
\* of three items, Field records, a list in place of a tuple, a name given
\* twice, and an entry that is no data type.
FieldLists(type) ==
    { PyTuple(<< PyTuple(<<PyStr("a"), type>>) >>),
      PyList(<< PyTuple(<<PyStr("a"), type, PyBool(TRUE)>>) >>),
      PyTuple(<< Field(PyStr("a"), type, PyBool(FALSE)),
                 PyTuple(<<PyStr("b"), Number(PyClass("int8"), PyInt(1),
                                              PyNone)>>) >>),
      PyTuple(<< PyTuple(<<PyStr("a"), type>>),
                 PyTuple(<<PyStr("a"), Bool(PyBool(TRUE), PyNone)>>) >>),
      PyTuple(<< PyTuple(<<PyStr("b"), PyInt(123)>>),
                 PyTuple(<<PyStr("a"), type>>) >>),
      PyTuple(<< PyTuple(<<PyStr("a"), type>>),
                 PyTuple(<<PyStr("a"), Bool(PyBool(TRUE), PyNone)>>),
                 PyTuple(<<PyStr("b"), PyClass("Number")>>) >>) }

\* The caller names the arrays of integer shape and leaves the others unnamed.
ArrayName(shape) == IF shape.k = "int" THEN PyStr("Vec") ELSE PyNone

Overrides ==
    { << <<"default", PyInt(99)>> >>,
      << <<"shape", PyInt(3)>>, <<"name", PyStr("Grid")>> >>,
      << <<"view", PyClass("Flag")>> >>,
      << <<"colour", PyInt(1)>> >> }

NoCall == [fn |-> "none", arg |-> Nothing, kwargs |-> <<>>, out |-> Nothing,
           after |-> Nothing]
Called(fn, arg, kwargs, out, after) ==
    [fn |-> fn, arg |-> arg, kwargs |-> kwargs, out |-> out, after |-> after]

NoViews == /\ buffers = <<>>
           /\ writes = 0
           /\ instances = <<>>
           /\ last = Nothing

Init ==
    /\ schema \in Atomics
    /\ depth = 0
    /\ call = NoCall
    /\ heap = InitialHeap
    /\ classes = 0
    /\ resolved = <<>>
    /\ mutations = 0
    /\ NoViews

\* Array(element_type=schema, shape=shape, name=name): the caller wraps its
\* node into a new one, and the record of the last call is of the old node.
MakeArray ==
    /\ depth < MaxDepth
    /\ \E shape \in Shapes :
          schema' = Array(schema, shape, ArrayName(shape), PyNone)
    /\ depth' = depth + 1
    /\ call' = NoCall
    /\ UNCHANGED <<heap, classes, resolved, mutations, buffers, writes,
                   instances, last>>

\* Structure(fields=fields)
MakeStructure ==
    /\ depth < MaxDepth
    /\ \E fields \in FieldLists(schema) :
          schema' = Structure(fields, PyNone, PyNone)
    /\ depth' = depth + 1
    /\ call' = NoCall
    /\ UNCHANGED <<heap, classes, resolved, mutations, buffers, writes,
                   instances, last>>

\* update(schema, **kwargs): the caller keeps its node and is handed a copy.
Update ==
    /\ \E kwargs \in Overrides :
          LET r == update(schema, kwargs)
          IN /\ call' = Called("update", schema, kwargs, r.out, r.arg)
             /\ schema' = r.arg
    /\ UNCHANGED <<depth, heap, classes, resolved, mutations, buffers,
                   writes, instances, last>>

\* _consolidate(schema), and _consolidate of a tree it has returned.
Consolidate ==
    /\ \E arg \in {schema} \cup
                  (IF call.fn = "_consolidate" /\ ~Raised(call.out)
                   THEN {call.out} ELSE {}) :
          call' = Called("_consolidate", arg, <<>>, _consolidate(arg), arg)
    /\ UNCHANGED <<schema, depth, heap, classes, resolved, mutations, buffers,
                   writes, instances, last>>

\* _check_data_type(schema, '')
Check ==
    /\ call' = Called("_check_data_type", schema, <<>>,
                      _check_data_type(schema, <<>>), schema)
    /\ UNCHANGED <<schema, depth, heap, classes, resolved, mutations, buffers,
                   writes, instances, last>>

\* _resolve_dtype(_consolidate(schema)), as resolve calls it.
ResolveDtype ==
    /\ ~Raised(_consolidate(schema))
    /\ call' = Called("_resolve_dtype", _consolidate(schema), <<>>,
                      _resolve_dtype(_consolidate(schema)),
                      _consolidate(schema))
    /\ UNCHANGED <<schema, depth, heap, classes, resolved, mutations, buffers,
                   writes, instances, last>>

Next ==
    \/ MakeArray
    \/ MakeStructure
    \/ Update
    \/ Consolidate
    \/ Check
    \/ ResolveDtype

Spec == Init /\ [][Next]_vars

----------------------------------------------------------------------------
(* Properties of the consolidator, the dtype resolver, the validator and   *)
(* update.                                                                 *)

IsNode(x) == x.k = "node"
IsTupleLike(x) == x.k \in {"tuple", "list", "Field"}

\* The fields of a structure node that are tuples holding a name at least.
NamedFields(tree) ==
    IF IsNode(tree) /\ IsStructure(tree) /\ IsTupleLike(tree.fields)
    THEN SelectSeq(tree.fields.items,
                   LAMBDA f : IsTupleLike(f) /\ Len(f.items) >= 1)
    ELSE <<>>

\* The nodes right below a node: an array's element type, the fields' types.
Children(tree) ==
    IF ~IsNode(tree) THEN {}
    ELSE IF IsArray(tree) THEN {tree.element_type}
    ELSE {NamedFields(tree)[i].items[_FIELD_TYPE] :
             i \in {j \in 1..Len(NamedFields(tree)) :
                       Len(NamedFields(tree)[j].items) >= _FIELD_TYPE}}

RECURSIVE Subtrees(_)
Subtrees(tree) ==
    {tree} \cup UNION {Subtrees(c) : c \in Children(tree)}

\* The names given to more than one field of a structure node.
RepeatedNames(tree) ==
    LET fields == NamedFields(tree)
    IN {fields[i].items[_FIELD_NAME] : i \in
           {i \in 1..Len(fields) : \E j \in 1..Len(fields) :
               j # i /\ fields[j].items[_FIELD_NAME]
                           = fields[i].items[_FIELD_NAME]}}

HasRepeatedNames(tree) == \E t \in Subtrees(tree) : RepeatedNames(t) # {}

\* The tree with the fields of every structure renamed apart, by position.
PositionName(i) == PyStr(<<"f1", "f2", "f3", "f4">>[i])
RECURSIVE RenamedApart(_)
RenamedApart(tree) ==
    IF ~IsNode(tree) THEN tree
    ELSE IF IsArray(tree)
    THEN [tree EXCEPT !.element_type = RenamedApart(@)]
    ELSE IF IsStructure(tree) /\ IsTupleLike(tree.fields)
    THEN [tree EXCEPT !.fields.items =
             [i \in 1..Len(@) |->
                 IF IsTupleLike(@[i]) /\ Len(@[i].items) >= _FIELD_TYPE
                 THEN [@[i] EXCEPT !.items =
                          [j \in 1..Len(@) |->
                              IF j = _FIELD_NAME THEN PositionName(i)
                              ELSE IF j = _FIELD_TYPE THEN RenamedApart(@[j])
                              ELSE @[j]]]
                 ELSE @[i]]]
    ELSE tree

\* C1: consolidation is idempotent: consolidating a tree that _consolidate
\* has returned gives that same tree back.
C1_ConsolidateIdempotent ==
    (call.fn = "_consolidate" /\ ~Raised(call.out))
        => _consolidate(call.out) = call.out

\* C1 witness: _consolidate was called on a tree it had returned, one that
\* differs from the caller's tree and nests a structure in a structure.
C1_Witness ==
    /\ call.fn = "_consolidate"
    /\ call.arg # schema
    /\ call.out = call.arg
    /\ IsStructure(call.arg)
    /\ \E c \in Children(call.arg) : IsNode(c) /\ IsStructure(c)

\* The shapes of the arrays of a consolidated tree against its descriptor:
\* a tuple of one entry is replaced by the entry, every other shape is kept.
RECURSIVE ShapesCollapsed(_, _)
ShapesCollapsed(tree, descriptor) ==
    IF IsArray(tree)
    THEN /\ descriptor.items[2] =
                (IF tree.shape.k = "tuple" /\ Len(tree.shape.items) = 1
                 THEN tree.shape.items[1] ELSE tree.shape)
         /\ ShapesCollapsed(tree.element_type, descriptor.items[1])
    ELSE IF IsStructure(tree)
    THEN \A i \in 1..Len(tree.fields.items) :
            ShapesCollapsed(tree.fields.items[i].items[_FIELD_TYPE],
                            descriptor.items[i].items[2])
    ELSE TRUE

\* The tree with every shape (n,) written n.
RECURSIVE IntegerShapes(_)
IntegerShapes(tree) ==
    IF IsArray(tree)
    THEN [tree EXCEPT
             !.element_type = IntegerShapes(@),
             !.shape = IF @.k = "tuple" /\ Len(@.items) = 1
                       THEN @.items[1] ELSE @]
    ELSE IF IsStructure(tree)
    THEN [tree EXCEPT !.fields.items =
             [i \in 1..Len(@) |->
                 [@[i] EXCEPT !.items[_FIELD_TYPE] = IntegerShapes(@)]]]
    ELSE tree

\* C5: layout shape collapse: the descriptor of a tree is the descriptor of
\* the tree with every shape (n,) written n, at the root and at every
\* nesting level, and a tuple shape of another length is passed as it is.
C5_LayoutShapeCollapse ==
    (call.fn = "_resolve_dtype" /\ ~Raised(call.out))
        => /\ call.out = _resolve_dtype(IntegerShapes(call.arg))
           /\ ShapesCollapsed(call.arg, call.out)

\* C5 witness: the descriptor of an array of shape (n,) nested in an array
\* whose own shape is a tuple of two entries.
C5_Witness ==
    /\ call.fn = "_resolve_dtype"
    /\ ~Raised(call.out)
    /\ IsArray(call.arg)
    /\ call.arg.shape = PyTuple(<<PyInt(1), PyInt(2)>>)
    /\ IsArray(call.arg.element_type)
    /\ call.arg.element_type.shape = PyTuple(<<PyInt(2)>>)
    /\ call.out.items[1].items[2] = PyInt(2)

\* What C6 promises of a validation: a ValueError naming repeated names, and
\* the same error out of resolve in place of a layout, default and view.
RaisesRepeatedNames ==
    /\ Raised(call.out)
    /\ call.out.exc = "ValueError"
    /\ call.out.names # <<>>
    /\ \A i \in 1..Len(call.out.names) :
          \E t \in Subtrees(call.arg) : call.out.names[i] \in RepeatedNames(t)
    /\ resolve(call.arg, PyNone, FALSE, TRUE, heap, classes).out = call.out

C7_UpdateNonMutating ==
    (call.fn = "update" /\ ~Raised(call.out))
        => /\ \A i \in 1..Len(call.kwargs) :
                 call.out[call.kwargs[i][1]] = call.kwargs[i][2]
           /\ \A a \in DOMAIN call.arg :
                 (\A i \in 1..Len(call.kwargs) : call.kwargs[i][1] # a)
                     => call.out[a] = call.arg[a]
           /\ DOMAIN call.out = DOMAIN call.arg
           /\ call.after = call.arg
           /\ schema = call.arg

\* C7 witness: an update of two attributes of an array at once, which
\* changed both of them in the copy.
C7_Witness ==
    /\ call.fn = "update"
    /\ ~Raised(call.out)
    /\ Len(call.kwargs) = 2
    /\ call.out.shape = PyInt(3)
    /\ call.arg.shape # PyInt(3)
    /\ call.out.name # call.arg.name
    /\ call.out.element_type = call.arg.element_type

----------------------------------------------------------------------------
(* The caller resolving one schema several times and changing, in place,   *)
(* the list objects it holds or is handed.                                 *)

Leaf == Object(MutableDefault, PyNone)

Lengths == {PyInt(n) : n \in 0..MaxLength}
           \cup {PyTuple(<<PyInt(n)>>) : n \in 0..MaxLength}

Wrapped(type) ==
    {Array(type, shape, PyNone, PyNone) :
        shape \in {PyInt(2), PyTuple(<<PyInt(1), PyInt(2)>>), PyTuple(<<>>)}}
    \cup {Structure(PyTuple(<<PyTuple(<<PyStr("a"), type>>)>>), PyNone,
                    PyNone),
          Structure(PyTuple(<<PyTuple(<<PyStr("n"), Number(PyClass("uint8"),
                                                     PyInt(-1), PyNone)>>),
                              PyTuple(<<PyStr("a"), type,
                                        PyBool(TRUE)>>)>>),
                    PyStr("P"), PyNone)}

ResolveSchemas ==
    {Leaf, Object(PyNone, PyNone)}
    \cup {Array(Leaf, shape, PyNone, PyNone) : shape \in Lengths}
    \cup Wrapped(Leaf)
    \cup UNION {Wrapped(t) : t \in Wrapped(Leaf)}

InitResolve ==
    /\ schema \in ResolveSchemas
    /\ depth = 0
    /\ call = NoCall
    /\ heap = InitialHeap
    /\ classes = 0
    /\ resolved = <<>>
    /\ mutations = 0
    /\ NoViews

\* resolve(schema, listify_default=listify); the listify_default arguments
\* of the calls made so far are kept in order.
Resolve ==
    /\ Len(resolved) < MaxResolves
    /\ \E listify \in BOOLEAN :
          LET r == resolve(schema, PyNone, listify, TRUE, heap, classes)
          IN /\ resolved' = Append(resolved, r.out)
             /\ heap' = r.heap
             /\ classes' = r.n
             /\ call' = Called("resolve", schema,
                               Append(call.kwargs, PyBool(listify)), r.out,
                               schema)
    /\ UNCHANGED <<schema, depth, mutations, buffers, writes, instances, last>>

\* some_list.append('local') on a list object: the schema's own default or
\* one reached through a resolved default, after so many resolve calls.
Mutate ==
    /\ mutations < MaxMutations
    /\ \E a \in 1..Len(heap) :
          /\ heap' = [heap EXCEPT ![a] = Append(@, PyStr("local"))]
          /\ last' = [op |-> "append", a |-> a, before |-> heap,
                       calls |-> Len(resolved)]
    /\ mutations' = mutations + 1
    /\ UNCHANGED <<schema, depth, call, classes, resolved, buffers, writes,
                   instances>>

NextResolve ==
    \/ Resolve
    \/ Mutate

SpecResolve == InitResolve /\ [][NextResolve]_vars

\* The addresses of the list objects reachable from a value.
RECURSIVE Refs(_)
Refs(value) ==
    IF value.k = "ref" THEN {value.a}
    ELSE IF value.k \in {"tuple", "list", "struct"}
    THEN UNION {Refs(value.items[i]) : i \in 1..Len(value.items)}
    ELSE {}

\* The resolve calls that returned, by position.
Returned == {n \in 1..Len(resolved) : ~Raised(resolved[n])}

ArrayOfMutable ==
    /\ IsArray(schema)
    /\ schema.element_type = Leaf
    /\ \/ schema.shape.k = "int" /\ schema.shape.v >= 2
       \/ /\ schema.shape.k = "tuple"
          /\ Len(schema.shape.items) = 1
          /\ schema.shape.items[1].v >= 2

\* C2: in the resolved default of an Array of shape n >= 2 or (n,) of
\* Objects with a list as default, the elements are pairwise distinct
\* objects, and an append to one of them leaves the others as they were.
C2_DefaultNonAliasing ==
    ArrayOfMutable =>
        \A n \in Returned :
            LET default == resolved[n].default
            IN /\ Len(default.items) = (IF schema.shape.k = "int"
                                        THEN schema.shape.v
                                        ELSE schema.shape.items[1].v)
               /\ \A i, j \in 1..Len(default.items) :
                     i # j =>
                        /\ default.items[i].k = "ref"
                        /\ default.items[i].a # default.items[j].a
                        /\ (last # Nothing /\ last.a = default.items[i].a)
                              => heap[default.items[j].a]
                                    = last.before[default.items[j].a]

\* C2 witness: the element at index 0 of such a default was appended to and
\* the element at index 1 is still the empty list.
C2_Witness ==
    /\ ArrayOfMutable
    /\ \E n \in Returned :
          /\ last # Nothing
          /\ last.a = resolved[n].default.items[1].a
          /\ heap[resolved[n].default.items[1].a] = <<PyStr("local")>>
          /\ heap[resolved[n].default.items[2].a] = <<>>

\* C3 as stated: the defaults of two resolve calls share no list object
\* with each other nor with the default attribute of the schema's node.
C3_AsStated ==
    \A n \in Returned :
        /\ Refs(resolved[n].default) \cap Refs(MutableDefault) = {}
        /\ \A m \in Returned :
              m # n => Refs(resolved[n].default)
                           \cap Refs(resolved[m].default) = {}

----------------------------------------------------------------------------
(* The view instances: the mixins of nani.py, lines 381 to 543, and the    *)
(* properties of lines 1087 to 1104.  A numpy array is a tree of cells in  *)
(* `buffers`; the data a view holds is a segment of one of them.           *)

\* The array object found in buffer buf by following path; the buffer
\* itself when the path is empty.
Segment(buf, path) == [k |-> "segment", buf |-> buf, path |-> path]

RECURSIVE CellAt(_, _)
CellAt(tree, path) ==
    IF path = <<>> THEN tree
    ELSE CellAt(tree.items[Head(path)], Tail(path))

RECURSIVE WriteAt(_, _, _)
WriteAt(tree, path, value) ==
    IF path = <<>> THEN value
    ELSE [tree EXCEPT !.items[Head(path)] = WriteAt(@, Tail(path), value)]

\* data[index]: a scalar cell is returned by value, a composite one as the
\* array object over the same memory.
DataGetItem(data, index, bufs) ==
    LET cell == CellAt(bufs[data.buf], Append(data.path, index))
    IN IF cell.k = "list" THEN Segment(data.buf, Append(data.path, index))
       ELSE cell

\* data[index] = value: the value is written into the memory of the buffer.
DataSetItem(data, index, value, bufs) ==
    [bufs EXCEPT ![data.buf] = WriteAt(@, Append(data.path, index), value)]

\* len(data)
DataLen(data, bufs) == Len(CellAt(bufs[data.buf], data.path).items)

\* item in data, for an array of scalars.
DataContains(data, item, bufs) ==
    \E i \in 1..DataLen(data, bufs) :
        CellAt(bufs[data.buf], Append(data.path, i)) = item

\* Lines 390 and 391 and their like.  This variant keeps a copy of the
\* array it is given.
ConstructCopying(cls, args) ==
    IF "mixin" \in DOMAIN cls
    THEN IF Len(args) = 1
         THEN [k |-> "instance", cls |-> cls,
               _data |-> [args[1] EXCEPT !.k = "copy"]]
         ELSE Raise("TypeError", "__init__ arguments", <<>>, "", <<>>)
    ELSE [k |-> "instance", cls |-> cls, args |-> args]

\* cls(*args): a synthesized class keeps its one argument as _data; a class
\* the caller gave keeps what it is called with.
Construct(cls, args) ==
    IF "mixin" \in DOMAIN cls
    THEN IF Len(args) = 1
         THEN [k |-> "instance", cls |-> cls, _data |-> args[1]]
         ELSE Raise("TypeError", "__init__ arguments", <<>>, "", <<>>)
    ELSE [k |-> "instance", cls |-> cls, args |-> args]

_ARRAY_MIXINS ==
    {"_DirectArrayViewMixin", "_IndirectAtomicArrayViewMixin",
     "_IndirectCompositeArrayViewMixin"}

NoSuchMethod == Raise("TypeError", "unsupported operation", <<>>, "", <<>>)

__getitem__(self, index, bufs) ==
    CASE self.cls.mixin = "_DirectArrayViewMixin" ->
            DataGetItem(self._data, index, bufs)
      [] self.cls.mixin = "_IndirectAtomicArrayViewMixin" ->
            Construct(self.cls._element_view, <<self._data, PyInt(index)>>)
      [] self.cls.mixin = "_IndirectCompositeArrayViewMixin" ->
            Construct(self.cls._element_view,
                      <<DataGetItem(self._data, index, bufs)>>)
      [] OTHER -> NoSuchMethod

\* Lines 399, 444 and 494.  This variant writes into an array of the
\* view's own, out of the caller's sight.
__setitem__owned(self, index, value, bufs) ==
    IF self.cls.mixin \in _ARRAY_MIXINS
    THEN [out |-> PyNone, buffers |-> bufs]
    ELSE [out |-> NoSuchMethod, buffers |-> bufs]

\* The result is the outcome and the buffers the call leaves behind.
__setitem__(self, index, value, bufs) ==
    IF self.cls.mixin \in _ARRAY_MIXINS
    THEN [out |-> PyNone,
          buffers |-> DataSetItem(self._data, index, value, bufs)]
    ELSE [out |-> NoSuchMethod, buffers |-> bufs]

\* list(iter(self)): the elements in order.
__iter__(self, bufs) ==
    IF self.cls.mixin \in _ARRAY_MIXINS
    THEN PyList([i \in 1..DataLen(self._data, bufs) |->
                    __getitem__(self, i, bufs)])
    ELSE NoSuchMethod

\* iter(self), lines 402 to 403, 447 to 449 and 497 to 498: an iterator
\* over the array, over range(len(array)) or over the array again, each
\* made when the call is; it stands before the first element and stops
\* after the last.
iter(self, bufs) ==
    IF self.cls.mixin \in _ARRAY_MIXINS
    THEN [k |-> "iterator", self |-> self, pos |-> 0,
          stop |-> DataLen(self._data, bufs)]
    ELSE NoSuchMethod

StopIteration == Raise("StopIteration", "", <<>>, "", <<>>)

\* This variant starts over after the last element.
nextCycling(it, bufs) ==
    LET i == (it.pos % it.stop) + 1
    IN [out |-> __getitem__(it.self, i, bufs), it |-> [it EXCEPT !.pos = i]]

\* next(it): the element the iterator stands before, as the mixin of its
\* view yields it, and the iterator moved past it; StopIteration after the
\* last one.
next(it, bufs) ==
    IF it.pos >= it.stop THEN [out |-> StopIteration, it |-> it]
    ELSE LET i == it.pos + 1
             view_ == it.self.cls
             data == it.self._data
         IN [out |-> CASE view_.mixin = "_DirectArrayViewMixin" ->
                             DataGetItem(data, i, bufs)
                       [] view_.mixin = "_IndirectAtomicArrayViewMixin" ->
                             Construct(view_._element_view,
                                       <<data, PyInt(i)>>)
                       [] view_.mixin = "_IndirectCompositeArrayViewMixin" ->
                             Construct(view_._element_view,
                                       <<DataGetItem(data, i, bufs)>>),
             it |-> [it EXCEPT !.pos = i]]

__len__(self, bufs) ==
    IF self.cls.mixin \in _ARRAY_MIXINS
    THEN PyInt(DataLen(self._data, bufs))
    ELSE NoSuchMethod

\* Lines 408, 454 and 503.  The third passes self along with item to a
\* method already bound to the data, which takes one argument.
__contains__(self, item, bufs) ==
    CASE self.cls.mixin \in {"_DirectArrayViewMixin",
                             "_IndirectAtomicArrayViewMixin"} ->
            PyBool(DataContains(self._data, item, bufs))
      [] self.cls.mixin = "_IndirectCompositeArrayViewMixin" ->
            Raise("TypeError", "expected 1 argument, got 2", <<>>, "", <<>>)
      [] OTHER -> NoSuchMethod

NotImplemented == [k |-> "NotImplemented"]

\* self.__eq__(other): none of the mixins defines it and the synthesized
\* classes have no base but object, whose __eq__ knows identity alone.
\* same tells whether other is the object self.
__eq__(self, other, same) == IF same THEN PyBool(TRUE) ELSE NotImplemented

\* self == other: both sides answer NotImplemented unless they are the one
\* object, and the comparison falls back on identity.
Equals(self, other, same) ==
    IF __eq__(self, other, same) # NotImplemented
    THEN __eq__(self, other, same)
    ELSE IF __eq__(other, self, same) # NotImplemented
    THEN __eq__(other, self, same)
    ELSE PyBool(same)

\* The property a name is bound to in a synthesized structure view: the
\* last one given that name.
HasProperty(cls, name) ==
    /\ "props" \in DOMAIN cls
    /\ \E i \in 1..Len(cls.props) : cls.props[i].name = name

PropertyOf(cls, name) ==
    cls.props[CHOOSE i \in 1..Len(cls.props) :
                 /\ cls.props[i].name = name
                 /\ \A j \in (i + 1)..Len(cls.props) :
                       cls.props[j].name # name]

NoAttribute == Raise("AttributeError", "no such attribute", <<>>, "", <<>>)

\* getattr(self, name): the getter of lines 1087 to 1098.
GetAttr(self, name, bufs) ==
    IF ~HasProperty(self.cls, name) THEN NoAttribute
    ELSE LET p == PropertyOf(self.cls, name)
         IN CASE p.fget = "direct" ->
                    DataGetItem(self._data, p.index, bufs)
              [] p.fget = "atomic" ->
                    Construct(p.field_view, <<self._data, PyInt(p.index)>>)
              [] p.fget = "composite" ->
                    Construct(p.field_view,
                              <<DataGetItem(self._data, p.index, bufs)>>)

\* setattr(self, name, value): the setter of lines 1100 to 1104; a property
\* without one refuses the assignment.
SetAttr(self, name, value, bufs) ==
    IF ~HasProperty(self.cls, name)
    THEN [out |-> NoAttribute, buffers |-> bufs]
    ELSE LET p == PropertyOf(self.cls, name)
         IN IF p.fset
            THEN [out |-> PyNone,
                  buffers |-> DataSetItem(self._data, p.index, value, bufs)]
            ELSE [out |-> Raise("AttributeError", "can't set attribute",
                                <<>>, name, <<>>),
                  buffers |-> bufs]

----------------------------------------------------------------------------
(* The caller resolving a schema, allocating arrays of its dtype, wrapping *)
(* them into views and working through the views.                          *)

Int8 == Number(PyClass("int8"), PyInt(0), PyNone)
Flagged == Number(PyClass("uint8"), PyInt(0), PyClass("Flag"))
Pair == Array(Int8, PyInt(2), PyStr("Pair"), PyNone)
Vector == Array(Int8, PyTuple(<<PyInt(2)>>), PyNone, PyClass("Vector2View"))

ViewSchemas == {Int8, Flagged, Pair, Vector}

Particle ==
    Structure(PyList(<<PyTuple(<<PyStr("id"), Int8, PyBool(TRUE)>>),
                       Field(PyStr("flags"), Flagged, PyBool(FALSE)),
                       PyTuple(<<PyStr("position"), Pair>>)>>),
              PyStr("Particle"), PyNone)

FieldSchemas == {Particle}

\* The cells of numpy.zeros(shape, dtype) for the dtype of a type.
RECURSIVE Zeros(_)
RECURSIVE ZerosOfShape(_, _)
ZerosOfShape(dims, type) ==
    IF dims = <<>> THEN Zeros(type)
    ELSE PyList([i \in 1..Head(dims).v |-> ZerosOfShape(Tail(dims), type)])

Zeros(type) ==
    IF IsAtomic(type) THEN PyInt(0)
    ELSE IF IsArray(type)
    THEN ZerosOfShape(IF type.shape.k = "tuple" THEN type.shape.items
                      ELSE <<type.shape>>, type.element_type)
    ELSE PyList([i \in 1..Len(type.fields.items) |->
                    Zeros(type.fields.items[i].items[_FIELD_TYPE])])

\* The cells of a value shaped as cell with v everywhere.
RECURSIVE Filled(_, _)
Filled(cell, v) ==
    IF cell.k = "list"
    THEN PyList([i \in 1..Len(cell.items) |-> Filled(cell.items[i], v)])
    ELSE v

\* What the caller did last: the operation, the instance it was applied
\* to, its arguments, its outcome and the buffers before it.
Did(op, self, args, out) ==
    [op |-> op, self |-> self, args |-> args, out |-> out,
     before |-> buffers]

LastOp == IF "op" \in DOMAIN last THEN last.op ELSE ""

\* dtype, default, view = resolve(schema) and, for each given length, an
\* array numpy.zeros(length, dtype=dtype).
Allocated(schemas, lengths) ==
    /\ schema \in schemas
    /\ depth = 0
    /\ call = NoCall
    /\ heap = InitialHeap
    /\ LET r == resolve(schema, PyNone, FALSE, TRUE, InitialHeap, 0)
       IN /\ resolved = <<r.out>>
          /\ classes = r.n
    /\ mutations = 0
    /\ buffers = [b \in 1..Len(lengths) |->
                     ZerosOfShape(<<PyInt(lengths[b])>>,
                                  _consolidate(schema))]
    /\ writes = 0
    /\ instances = <<>>
    /\ last = Nothing

InitView == Allocated(ViewSchemas, <<BufferLength, 1>>)

Views == 1..Len(instances)

\* The indices of the elements of the longest buffer; an operation is given
\* one that the view it is applied to has.
Indices == 1..BufferLength

Has(v, i) == i <= DataLen(instances[v].obj._data, buffers)

\* v = view(a)
NewView ==
    /\ ~Raised(resolved[1])
    /\ Len(instances) < MaxInstances
    /\ \E b \in 1..Len(buffers) :
          /\ instances' = Append(instances,
                                 [obj |-> Construct(resolved[1].view,
                                                    <<Segment(b, <<>>)>>),
                                  buffer |-> Segment(b, <<>>)])
          /\ last' = Did("view", Len(instances) + 1, <<Segment(b, <<>>)>>,
                         PyNone)
    /\ UNCHANGED <<schema, depth, call, heap, classes, resolved, mutations,
                   buffers, writes>>

\* v[i]
GetItem ==
    /\ \E v \in Views, i \in Indices :
          /\ Has(v, i)
          /\ last' = Did("getitem", v, <<PyInt(i)>>,
                         __getitem__(instances[v].obj, i, buffers))
    /\ UNCHANGED <<schema, depth, call, heap, classes, resolved, mutations,
                   buffers, writes, instances>>

\* v[i] = value, the value being an element of ones over the zeros the
\* element was allocated with and of twos over anything else.
SetItem ==
    /\ writes < MaxWrites
    /\ \E v \in Views, i \in Indices :
          /\ Has(v, i)
          /\ LET data == instances[v].obj._data
                 cell == CellAt(buffers[data.buf], Append(data.path, i))
                 value == Filled(cell, IF cell = Filled(cell, PyInt(0))
                                       THEN PyInt(1)
                                       ELSE PyInt(2))
                 r == __setitem__(instances[v].obj, i, value, buffers)
             IN /\ buffers' = r.buffers
                /\ last' = Did("setitem", v, <<PyInt(i), value>>, r.out)
    /\ writes' = writes + 1
    /\ UNCHANGED <<schema, depth, call, heap, classes, resolved, mutations,
                   instances>>

\* list(v)
Iterate ==
    /\ \E v \in Views :
          last' = Did("iter", v, <<>>, __iter__(instances[v].obj, buffers))
    /\ UNCHANGED <<schema, depth, call, heap, classes, resolved, mutations,
                   buffers, writes, instances>>

\* len(v)
Length ==
    /\ \E v \in Views :
          last' = Did("len", v, <<>>, __len__(instances[v].obj, buffers))
    /\ UNCHANGED <<schema, depth, call, heap, classes, resolved, mutations,
                   buffers, writes, instances>>

\* item in v
Contains ==
    /\ \E v \in Views, item \in {PyInt(0), PyInt(1)} :
          last' = Did("contains", v, <<item>>,
                      __contains__(instances[v].obj, item, buffers))
    /\ UNCHANGED <<schema, depth, call, heap, classes, resolved, mutations,
                   buffers, writes, instances>>

\* v == w
Compare ==
    /\ \E v \in Views, w \in Views :
          last' = Did("==", v, <<PyInt(w)>>,
                      Equals(instances[v].obj, instances[w].obj, v = w))
    /\ UNCHANGED <<schema, depth, call, heap, classes, resolved, mutations,
                   buffers, writes, instances>>

\* v.__eq__([])
CompareForeign ==
    /\ \E v \in Views :
          last' = Did("__eq__", v, <<PyList(<<>>)>>,
                      __eq__(instances[v].obj, PyList(<<>>), FALSE))
    /\ UNCHANGED <<schema, depth, call, heap, classes, resolved, mutations,
                   buffers, writes, instances>>

\* get_data(v)
GetData ==
    /\ \E v \in Views :
          last' = Did("get_data", v, <<>>, get_data(instances[v].obj))
    /\ UNCHANGED <<schema, depth, call, heap, classes, resolved, mutations,
                   buffers, writes, instances>>

\* The names of the fields of the structure view that v[i] is, if it is one.
FieldNames(element) ==
    IF element.k = "instance" /\ "_fields" \in DOMAIN element.cls
    THEN {element.cls._fields[n] : n \in 1..Len(element.cls._fields)}
    ELSE {}

\* v[i].name
GetField ==
    /\ \E v \in Views, i \in Indices :
          /\ Has(v, i)
          /\ LET element == __getitem__(instances[v].obj, i, buffers)
             IN \E name \in FieldNames(element) :
                   last' = Did("getfield", v, <<PyInt(i), name>>,
                               GetAttr(element, name, buffers))
    /\ UNCHANGED <<schema, depth, call, heap, classes, resolved, mutations,
                   buffers, writes, instances>>

\* v[i].name = value, the value being ones over the zeros the field was
\* allocated with and twos over anything else.
SetField ==
    /\ \E v \in Views, i \in Indices :
          /\ Has(v, i)
          /\ LET element == __getitem__(instances[v].obj, i, buffers)
             IN \E name \in FieldNames(element) :
                   LET index == PropertyOf(element.cls, name).index
                       cell == CellAt(buffers[element._data.buf],
                                      Append(element._data.path, index))
                       value == Filled(cell,
                                       IF cell = Filled(cell, PyInt(0))
                                       THEN PyInt(1)
                                       ELSE PyInt(2))
                       r == SetAttr(element, name, value, buffers)
                   IN /\ Raised(r.out) \/ writes < MaxWrites
                      /\ buffers' = r.buffers
                      /\ writes' = IF Raised(r.out) THEN writes ELSE writes + 1
                      /\ last' = Did("setfield", v, <<PyInt(i), name, value>>,
                                     r.out)
    /\ UNCHANGED <<schema, depth, call, heap, classes, resolved, mutations,
                   instances>>

NextView ==
    \/ NewView
    \/ GetItem
    \/ SetItem
    \/ Iterate
    \/ Length
    \/ Contains
    \/ Compare
    \/ CompareForeign
    \/ GetData

SpecView == InitView /\ [][NextView]_vars

\* The same with a schema of structures, working on the fields.
InitFields == Allocated(FieldSchemas, <<BufferLength>>)

NextFields ==
    \/ NewView
    \/ GetField
    \/ SetField

SpecFields == InitFields /\ [][NextFields]_vars

\* __, __, other_view = resolve(other); other_view(a): an array wrapped in
\* the view type of another schema whose arrays have cells of the same
\* make.
NewViewAlike ==
    /\ ~Raised(resolved[1])
    /\ Len(instances) < MaxInstances
    /\ \E b \in 1..Len(buffers), other \in ViewSchemas :
          /\ other # schema
          /\ Zeros(_consolidate(other)) = Zeros(_consolidate(schema))
          /\ LET r == resolve(other, PyNone, FALSE, TRUE, heap, classes)
             IN instances' = Append(instances,
                                    [obj |-> Construct(r.out.view,
                                                       <<Segment(b, <<>>)>>),
                                     buffer |-> Segment(b, <<>>)])
          /\ last' = Did("view", Len(instances) + 1, <<Segment(b, <<>>)>>,
                         PyNone)
    /\ UNCHANGED <<schema, depth, call, heap, classes, resolved, mutations,
                   buffers, writes>>

\* Views of several types over the same arrays, read and written by index.
NextShared ==
    \/ NewView
    \/ NewViewAlike
    \/ GetItem
    \/ SetItem

SpecShared == InitView /\ [][NextShared]_vars

\* The addresses of the iterators the caller holds, and the addresses there
\* can be.
Iterators == (Len(InitialHeap) + 1)..Len(heap)

IteratorSlots == (Len(InitialHeap) + 1)..(Len(InitialHeap) + MaxIterators)

\* it = iter(v)
Iter ==
    /\ Len(heap) < Len(InitialHeap) + MaxIterators
    /\ \E v \in Views :
          /\ heap' = Append(heap, iter(instances[v].obj, buffers))
          /\ last' = Did("iter", Len(heap) + 1, <<heap, PyInt(v)>>, PyNone)
    /\ UNCHANGED <<schema, depth, call, classes, resolved, mutations, buffers,
                   writes, instances>>

\* next(it) for the iterator at an address.
AdvanceOf(a) ==
    /\ a \in Iterators
    /\ LET r == next(heap[a], buffers)
       IN /\ heap' = [heap EXCEPT ![a] = r.it]
          /\ last' = Did("next", a, <<heap>>, r.out)
    /\ UNCHANGED <<schema, depth, call, classes, resolved, mutations, buffers,
                   writes, instances>>

\* Views iterated over, by one loop or by several at a time; a loop over an
\* iterator goes on asking for the next element until it is told to stop.
NextIter ==
    \/ NewView
    \/ Iter
    \/ \E a \in IteratorSlots : AdvanceOf(a)

\* dtype, default, view = resolve(schema); a = numpy.zeros(BufferLength,
\* dtype=dtype); a[i] = i + 1 for each index i.
InitIter ==
    /\ schema \in ViewSchemas
    /\ depth = 0
    /\ call = NoCall
    /\ heap = InitialHeap
    /\ LET r == resolve(schema, PyNone, FALSE, TRUE, InitialHeap, 0)
       IN /\ resolved = <<r.out>>
          /\ classes = r.n
    /\ mutations = 0
    /\ buffers = <<PyList([i \in 1..BufferLength |->
                              Filled(Zeros(_consolidate(schema)),
                                     PyInt(i))])>>
    /\ writes = BufferLength
    /\ instances = <<>>
    /\ last = Nothing

SpecIter ==
    /\ InitIter
    /\ [][NextIter]_vars
    /\ \A a \in IteratorSlots : WF_vars(AdvanceOf(a))

\* The cells a view instance holds.
CellsOf(v) ==
    CellAt(buffers[instances[v].obj._data.buf], instances[v].obj._data.path)

\* C4: the data of every view made from a buffer is that very buffer
\* object, whatever was done through the views since, and get_data hands
\* out that object.
C4_DataIdentity ==
    /\ \A v \in Views : get_data(instances[v].obj) = instances[v].buffer
    /\ LastOp = "get_data" => last.out = instances[last.self].buffer

\* C4 witness: get_data on a view of the second buffer, asked after a write
\* to that buffer through a view, gave the second buffer.
C4_Witness ==
    /\ LastOp = "get_data"
    /\ writes > 0
    /\ CellsOf(last.self) # Filled(CellsOf(last.self), PyInt(0))
    /\ last.out = Segment(2, <<>>)

\* The field of the schema an assignment names, and the cell it stands for.
AssignedField ==
    LET fields == _consolidate(schema).fields.items
    IN fields[CHOOSE n \in 1..Len(fields) :
                 fields[n].items[_FIELD_NAME] = last.args[2]]

AssignedPath ==
    LET fields == _consolidate(schema).fields.items
    IN <<last.args[1].v,
         CHOOSE n \in 1..Len(fields) :
            fields[n].items[_FIELD_NAME] = last.args[2]>>

\* C8: the schema with a read-only field resolves; assigning to a field
\* marked read-only through the structure view raises AttributeError and
\* leaves every buffer as it was; assigning to any other field returns and
\* writes the value into that field's cell, and into no other.
C8_ReadOnlyFields ==
    /\ ~Raised(resolved[1])
    /\ LastOp = "setfield" =>
          LET b == instances[last.self].buffer.buf
          IN IF Truthy(AssignedField.items[_FIELD_READ_ONLY])
             THEN /\ Raised(last.out)
                  /\ last.out.exc = "AttributeError"
                  /\ buffers = last.before
             ELSE /\ last.out = PyNone
                  /\ CellAt(buffers[b], AssignedPath) = last.args[3]
                  /\ buffers = [last.before EXCEPT
                                   ![b] = WriteAt(@, AssignedPath,
                                                  last.args[3])]

\* C8 witness: after a write to a buffer, an assignment to the read-only
\* field id was refused.
C8_Witness ==
    /\ LastOp = "setfield"
    /\ last.args[2] = PyStr("id")
    /\ Raised(last.out)
    /\ writes > 0
    /\ buffers = last.before

\* C9 as stated: two instances of the view type compare equal exactly when
\* the cells they hold are equal, and __eq__ with a list answers
\* NotImplemented.
C9_AsStated ==
    /\ LastOp = "==" =>
          last.out = PyBool(CellsOf(last.self) = CellsOf(last.args[1].v))
    /\ LastOp = "__eq__" => last.out = NotImplemented

\* C10 as stated: item in view never raises and tells whether the item is
\* one of the elements of the buffer, for each of the three array mixins.
C10_AsStated ==
    LastOp = "contains" =>
        /\ ~Raised(last.out)
        /\ last.out = PyBool(\E i \in 1..Len(CellsOf(last.self).items) :
                                CellsOf(last.self).items[i] = last.args[1])

----------------------------------------------------------------------------
(* The caller resolving a data type it wrote, well-formed or not, and      *)
(* asking the view it is handed for its element view.                      *)

NumberKinds ==
    {"bool", "int", "float", "complex", "int8", "object", "str", "bytes",
     "bool_", "object_", "string_", "unicode_"}

Numbers ==
    {Number(PyClass(kind), PyInt(0), PyNone) : kind \in NumberKinds}
    \cup {Number(PyNone, PyInt(0), PyNone)}

ApiAtomics ==
    { Bool(PyBool(FALSE), PyNone),
      Object(PyNone, PyNone),
      Leaf,
      Number(PyClass("uint8"), PyInt(-1), PyNone),
      Number(PyClass("bool"), PyBool(TRUE), PyNone),
      Number(PyClass("bool_"), PyInt(0), PyNone),
      Flagged,
      String(PyInt(2), PyBytes(""), PyNone) }

ApiArrays(type) ==
    { Array(type, PyInt(2), PyStr("Vec"), PyNone),
      Array(type, PyTuple(<<PyInt(2), PyInt(3)>>), PyNone, PyNone),
      Array(type, PyTuple(<<PyInt(2)>>), PyNone, PyClass("Vector2View")),
      Array(type, PyInt(0), PyNone, PyNone),
      Array(type, PyInt(-1), PyNone, PyNone),
      Array(type, PyTuple(<<PyInt(2), PyInt(-1)>>), PyNone, PyNone),
      Array(type, PyTuple(<<PyInt(2), PyStr("x")>>), PyNone, PyNone),
      Array(type, PyStr("x"), PyNone, PyNone) }

ApiStructures(type) ==
    { Structure(PyTuple(<<PyTuple(<<PyStr("x"), type>>),
                          PyTuple(<<PyStr("id"), Int8, PyBool(TRUE)>>)>>),
                PyStr("Particle"), PyNone),
      Structure(PyTuple(<<PyTuple(<<PyStr("x"), type>>),
                          PyTuple(<<PyStr("id"), Int8, PyBool(TRUE)>>)>>),
                PyStr("Particle"), PyClass("ParticleView")),
      Structure(PyList(<<Field(PyStr("b"), type, PyBool(FALSE)),
                         PyTuple(<<PyStr("a"), type>>)>>),
                PyNone, PyNone),
      Structure(PyTuple(<<PyTuple(<<PyStr("a"), type>>),
                          PyTuple(<<PyStr("a"), Int8>>)>>),
                PyNone, PyNone),
      Structure(PyTuple(<<PyTuple(<<PyStr("a"), type>>),
                          PyTuple(<<PyStr("b"), type>>),
                          PyTuple(<<PyStr("a"), Int8>>),
                          PyTuple(<<PyStr("b"), Int8>>)>>),
                PyNone, PyNone),
      Structure(PyTuple(<<PyTuple(<<PyStr("_id"), type>>)>>),
                PyNone, PyNone),
      Structure(PyTuple(<<PyTuple(<<PyStr("a"), type>>)>>),
                PyStr("my struct"), PyNone),
      Structure(PyTuple(<<PyTuple(<<PyStr("a")>>)>>), PyNone, PyNone),
      Structure(PyTuple(<<PyTuple(<<PyStr("x"), type>>),
                          PyTuple(<<PyStr("y"), Int8, PyInt(1)>>)>>),
                PyNone, PyNone),
      Structure(PyTuple(<<PyTuple(<<PyStr("x"), type, PyInt(1)>>),
                          PyTuple(<<PyStr("abc")>>)>>),
                PyNone, PyNone) }

ApiWrapped(type) == ApiArrays(type) \cup ApiStructures(type)

\* The nodes the caller wraps a second time.
ApiInner ==
    { Array(Number(PyClass("uint8"), PyInt(-1), PyNone),
            PyTuple(<<PyInt(2), PyInt(3)>>), PyNone, PyNone),
      Array(Flagged, PyInt(2), PyStr("Vec"), PyNone),
      Array(Bool(PyBool(FALSE), PyNone), PyTuple(<<PyInt(2)>>), PyNone,
            PyClass("Vector2View")),
      Structure(PyTuple(<<PyTuple(<<PyStr("x"), Flagged>>),
                          PyTuple(<<PyStr("id"), Int8, PyBool(TRUE)>>)>>),
                PyStr("Particle"), PyNone),
      Structure(PyTuple(<<PyTuple(<<PyStr("x"), Flagged>>),
                          PyTuple(<<PyStr("id"), Int8, PyBool(TRUE)>>)>>),
                PyStr("Particle"), PyClass("ParticleView")),
      Structure(PyTuple(<<PyTuple(<<PyStr("a"), Int8>>),
                          PyTuple(<<PyStr("a"), Int8>>)>>),
                PyNone, PyNone) }

\* What a caller gives by mistake for a data type: a class in place of an
\* instance of it, and an object that is no data type.
Mistaken == {PyClass("Number"), PyInt(123)}

\* Composite types with a defect of their own or of what they hold.
ApiDefective ==
    { Array(PyClass("Number"), PyInt(2), PyStr("Vec"), PyNone),
      Array(Bool(PyBool(FALSE), PyNone), PyInt(2), PyStr("Vec"), PyInt(123)),
      Structure(PyTuple(<<PyTuple(<<PyStr("id"), PyClass("Number")>>)>>),
                PyStr("Star"), PyNone),
      Structure(PyTuple(<<PyTuple(<<PyStr("id"), Int8, PyInt(1)>>)>>),
                PyStr("Star"), PyNone),
      Structure(PyTuple(<<PyStr("abc")>>), PyNone, PyNone) }

\* Data types of classes that derive from nani's, and one of a class that
\* derives from none of them.
Subtyped ==
    { Subtype(Bool(PyBool(FALSE), PyNone), "SubBool"),
      Subtype(Bool(PyBool(TRUE), PyNone), "SubSubBool"),
      Subtype(Bool(PyInt(3), PyNone), "SubBool"),
      Subtype(Number(PyClass("uint8"), PyInt(-1), PyNone), "SubNumber"),
      Subtype(Array(Number(PyClass("uint8"), PyInt(-1), PyNone), PyInt(1),
                    PyNone, PyNone), "SubArray"),
      Subtype(Array(Subtype(Array(Subtype(Bool(PyBool(FALSE), PyNone),
                                          "SubBool"),
                                  PyTuple(<<PyInt(2)>>), PyNone, PyNone),
                            "SubArray"),
                    PyInt(2), PyStr("Vec"), PyNone), "SubArray"),
      Subtype(Structure(PyTuple(<<>>), PyNone, PyNone), "SubStructure"),
      Subtype(Structure(
                  PyTuple(<<PyTuple(<<PyStr("x"),
                                      Subtype(Bool(PyBool(FALSE), PyNone),
                                              "SubSubBool")>>),
                            PyTuple(<<PyStr("id"), Int8, PyBool(TRUE)>>)>>),
                  PyStr("Particle"), PyNone), "SubStructure"),
      Subtype(Structure(
                  PyTuple(<<PyTuple(<<PyStr("a"),
                                      Subtype(Bool(PyInt(3), PyNone),
                                              "SubBool")>>)>>),
                  PyNone, PyNone), "SubStructure"),
      BoolNumber(PyBool(FALSE), PyNone),
      BoolNumber(PyInt(3), PyNone),
      Array(BoolNumber(PyBool(FALSE), PyNone), PyInt(2), PyNone, PyNone),
      Other }

ApiSchemas ==
    ApiAtomics \cup Numbers \cup Mistaken \cup ApiDefective \cup Subtyped
    \cup UNION {ApiWrapped(type) : type \in ApiAtomics \cup Mistaken}
    \cup UNION {ApiWrapped(type) : type \in ApiInner \cup ApiDefective}

InitApi ==
    /\ schema \in ApiSchemas
    /\ depth = 0
    /\ call = NoCall
    /\ heap = InitialHeap
    /\ classes = 0
    /\ resolved = <<>>
    /\ mutations = 0
    /\ NoViews

\* resolve(schema, name=name, listify_default=listify)
ResolveCall ==
    /\ resolved = <<>>
    /\ \E name \in {PyNone, PyStr("Grid")}, listify \in BOOLEAN :
          LET r == resolve(schema, name, listify, TRUE, heap, classes)
          IN /\ call' = Called("resolve", schema,
                               <<name, PyBool(listify)>>, r.out, schema)
             /\ resolved' = <<r.out>>
             /\ heap' = r.heap
             /\ classes' = r.n
    /\ UNCHANGED <<schema, depth, mutations, buffers, writes, instances,
                   last>>

\* get_element_view(view), of the view resolve returned and of the element
\* views that it gives.
GetElementView ==
    /\ resolved # <<>>
    /\ ~Raised(resolved[1])
    /\ \E arg \in {resolved[1].view} \cup
                  (IF call.fn = "get_element_view" /\ call.out # PyNone
                   THEN {call.out} ELSE {}) :
          call' = Called("get_element_view", arg,
                         <<(IF call.fn = "get_element_view"
                               /\ arg # resolved[1].view
                            THEN call.kwargs[1] + 1 ELSE 0)>>,
                         get_element_view(arg), arg)
    /\ UNCHANGED <<schema, depth, heap, classes, resolved, mutations, buffers,
                   writes, instances, last>>

NextApi ==
    \/ ResolveCall
    \/ Check
    \/ GetElementView

SpecApi == InitApi /\ [][NextApi]_vars

----------------------------------------------------------------------------
(* What resolve hands back, against the data type it was given. *)

Returns == resolved # <<>> /\ ~Raised(resolved[1])

\* The array resolve wraps the data type in, line 626.
RootNode(name) == Array(_consolidate(schema), PyInt(-1), name, PyNone)

\* The node reached from an array by d steps to the element type.
RECURSIVE Descend(_, _)
Descend(node, d) == IF d = 0 THEN node ELSE Descend(node.element_type, d - 1)

IsSynthesized(view_) == view_ # PyNone /\ "mixin" \in DOMAIN view_

\* The node whose view a get_element_view call was made on.
Asked == Descend(RootNode(PyNone), call.kwargs[1])

\* The structure with every read-only flag set to the one value.
Flags(node, value) ==
    [node EXCEPT !.fields.items =
        [i \in 1..Len(node.fields.items) |->
            IF Len(node.fields.items[i].items) >= _FIELD_READ_ONLY
            THEN [node.fields.items[i] EXCEPT
                     !.items[_FIELD_READ_ONLY] = PyBool(value)]
            ELSE node.fields.items[i]]]

\* C11: a view that a node names is what _resolve_view returns for the
\* node, as it is and with no class made; get_element_view of the view that
\* resolve returned for such a node, and of every synthesized array view
\* whose element is such a node, is the view the node names; and the
\* read-only flags of a structure that names a view change nothing in what
\* resolve returns as the view.
C11_ExplicitViewOverrides ==
    /\ Returns =>
          /\ \A node \in Subtrees(_consolidate(schema)) :
                node.view # PyNone =>
                   _resolve_view(node, classes) = Made(node.view, classes)
          /\ schema.view # PyNone =>
                get_element_view(resolved[1].view) = schema.view
          /\ (IsStructure(schema) /\ schema.view # PyNone) =>
                \A value \in BOOLEAN :
                   resolve(Flags(schema, value), PyNone, TRUE, TRUE,
                           InitialHeap, 0).out.view
                   = resolve(schema, PyNone, TRUE, TRUE,
                             InitialHeap, 0).out.view
    /\ (call.fn = "get_element_view" /\ IsSynthesized(call.arg)
        /\ IsArray(Asked) /\ Asked.element_type.view # PyNone) =>
          call.out = Asked.element_type.view

\* get_element_view was asked of the view resolve returned for a structure
\* that names a view and has a read-only field, and of the view of an array
\* inside an array.
C11_Witness ==
    /\ Returns
    /\ call.fn = "get_element_view"
    /\ \/ /\ IsStructure(schema)
          /\ schema.view = PyClass("ParticleView")
          /\ call.out = PyClass("ParticleView")
          /\ Flags(schema, FALSE) # schema
       \/ /\ call.kwargs[1] = 1
          /\ call.out = PyClass("Flag")

\* Whether every synthesized array view found in view_, the view of node,
\* has the mixin that the view of its element calls for, and gives that view
\* as its element view.
RECURSIVE Strategies(_, _)
Strategies(view_, node) ==
    IF ~IsSynthesized(view_) THEN TRUE
    ELSE IF IsArray(node)
    THEN LET element == node.element_type
             accessor == _resolve_view(element, 0).val
         IN /\ view_.mixin = "_DirectArrayViewMixin" <=> accessor = PyNone
            /\ view_.mixin = "_IndirectAtomicArrayViewMixin"
                  <=> (accessor # PyNone /\ IsAtomic(element))
            /\ view_.mixin = "_IndirectCompositeArrayViewMixin"
                  <=> (accessor # PyNone
                       /\ (IsArray(element) \/ IsStructure(element)))
            /\ IF accessor = PyNone THEN get_element_view(view_) = PyNone
               ELSE /\ get_element_view(view_) # PyNone
                    /\ element.view # PyNone =>
                          get_element_view(view_) = element.view
                    /\ Strategies(get_element_view(view_), element)
    ELSE \A i \in 1..Len(view_.props) :
            Strategies(view_.props[i].field_view,
                       node.fields.items[i].items[_FIELD_TYPE])

\* C12: a synthesized array view has the direct mixin exactly when the view
\* resolved for its element is None, the indirect atomic mixin exactly when
\* that view is not None and the element is atomic, and the indirect
\* composite mixin exactly when that view is not None and the element is an
\* Array or a Structure; get_element_view gives None for the first and the
\* view of the element for the other two.
C12_ArrayViewStrategy ==
    /\ (call.fn = "resolve" /\ Returns) =>
          Strategies(resolved[1].view, RootNode(call.kwargs[1]))
    /\ (call.fn = "get_element_view" /\ IsSynthesized(call.arg)
        /\ IsArray(Asked)) =>
          /\ call.out = PyNone
                <=> call.arg.mixin = "_DirectArrayViewMixin"
          /\ call.out = PyNone
                <=> _resolve_view(Asked.element_type, 0).val = PyNone
          /\ call.arg.mixin = "_IndirectAtomicArrayViewMixin" =>
                call.out = Asked.element_type.view

\* The view resolve returned uses the composite mixin, and get_element_view
\* was asked of the array view inside it, which uses the atomic one.
C12_Witness ==
    /\ Returns
    /\ resolved[1].view.mixin = "_IndirectCompositeArrayViewMixin"
    /\ call.fn = "get_element_view"
    /\ IsSynthesized(call.arg)
    /\ call.arg.mixin = "_IndirectAtomicArrayViewMixin"
    /\ call.out = PyClass("Flag")

\* The name a synthesized view of the node goes by.
DisplayName(node, fallback) ==
    IF Truthy(node.name) THEN NameOf(node.name) ELSE fallback

\* C13: when resolve returns, the view it returns is an array view class
\* made by this very call, named after the name argument when one is given
\* and 'ArrayView' when none is; it is not None and not the view the data
\* type names; and its element view is the view of the data type: None for
\* an atomic type without a view, the view the data type names when it names
\* one, and a synthesized view of the Array or the Structure otherwise.
C13_RootArrayView ==
    (call.fn = "resolve" /\ Returns) =>
       LET view_ == resolved[1].view
           element == get_element_view(view_)
       IN /\ view_ # PyNone
          /\ view_ # schema.view
          /\ IsSynthesized(view_)
          /\ view_.mixin \in {"_DirectArrayViewMixin",
                              "_IndirectAtomicArrayViewMixin",
                              "_IndirectCompositeArrayViewMixin"}
          /\ view_.id = classes
          /\ classes > 0
          /\ view_.name = IF call.kwargs[1] = PyNone THEN "ArrayView"
                          ELSE call.kwargs[1].v
          /\ IF schema.view # PyNone THEN element = schema.view
             ELSE IF IsAtomic(schema) THEN element = PyNone
             ELSE /\ IsSynthesized(element)
                  /\ element.id < view_.id
                  /\ IF IsArray(schema)
                     THEN /\ element.mixin # "_StructuredViewMixin"
                          /\ element.name = DisplayName(schema, "ArrayView")
                     ELSE /\ element.mixin = "_StructuredViewMixin"
                          /\ element.name
                                = DisplayName(schema, "StructureView")
                          /\ element._fields
                                = [i \in 1..Len(schema.fields.items) |->
                                      schema.fields.items[i]
                                         .items[_FIELD_NAME]]

\* resolve was given a name and a data type that names a view, and returned.
C13_Witness ==
    /\ call.fn = "resolve"
    /\ Returns
    /\ call.kwargs[1] = PyStr("Grid")
    /\ schema.view = PyClass("ParticleView")
    /\ resolved[1].view.name = "Grid"

Rejected == _check_data_type(schema, <<>>) # Nothing

\* C14: when the validator rejects the data type, resolve with checking on
\* raises the validator's own error and nothing else: no list has been
\* allocated and no class made, and no result is handed back.  When resolve
\* does hand a result back, the data type passed validation and the result
\* has its dtype, its default and its view.
C14_AllOrNothing ==
    /\ (call.fn = "resolve" /\ Rejected) =>
          /\ call.out = _check_data_type(schema, <<>>)
          /\ resolved = <<call.out>>
          /\ Raised(resolved[1])
          /\ heap = InitialHeap
          /\ classes = 0
    /\ Returns =>
          /\ ~Rejected
          /\ resolved[1].k = "Nani"
          /\ resolved[1].dtype.k = "dtype"
          /\ ~Raised(resolved[1].dtype.descriptor)
          /\ resolved[1].default # Nothing
          /\ ~Raised(resolved[1].default)
          /\ IsSynthesized(resolved[1].view)

\* resolve was given a structure that names a field twice, whose layout,
\* default and view could all be built, and raised the validator's error.
C14_Witness ==
    /\ call.fn = "resolve"
    /\ Rejected
    /\ Raised(resolved[1])
    /\ resolved[1].exc = "ValueError"
    /\ ~Raised(_resolve_dtype(_consolidate(schema)))
    /\ ~Raised(_resolve_default(_consolidate(schema), TRUE, InitialHeap))
    /\ ~Raised(_resolve_view(RootNode(PyNone), 0))

\* Whether d is a sequence of dims[i] entries, each of them a sequence of
\* dims[i + 1] entries, and so on down to entries that are all leaf.
RECURSIVE NestedBy(_, _, _, _)
NestedBy(d, dims, i, leaf) ==
    IF i > Len(dims) THEN d = leaf
    ELSE /\ d.k \in {"tuple", "list"}
         /\ Len(d.items) = dims[i].v
         /\ \A j \in 1..Len(d.items) : NestedBy(d.items[j], dims, i + 1, leaf)

PlainShape(node) ==
    /\ IsArray(node)
    /\ node.shape.k = "tuple"
    /\ \A i \in 1..Len(node.shape.items) :
          node.shape.items[i].k = "int" /\ node.shape.items[i].v >= 0

\* C15: the default resolved for an Array of an atomic type with the shape
\* (d1, ..., dk) has d1 entries at its outermost level and dk copies of the
\* default of the element at its innermost one.
C15_AsStated ==
    (call.fn = "resolve" /\ Returns /\ PlainShape(schema)
     /\ IsAtomic(schema.element_type)) =>
       NestedBy(resolved[1].default, schema.shape.items, 1,
                _resolve_default(schema.element_type, FALSE,
                                 InitialHeap).val)

\* The default with every tuple and every named tuple in it made a list.
RECURSIVE Listified(_)
Listified(d) ==
    IF d.k \in {"tuple", "list", "struct"}
    THEN PyList([i \in 1..Len(d.items) |-> Listified(d.items[i])])
    ELSE d

\* Whether the default has a list at any level.
RECURSIVE HasList(_)
HasList(d) ==
    /\ d.k \in {"tuple", "list", "struct"}
    /\ \/ d.k = "list"
       \/ \E i \in 1..Len(d.items) : HasList(d.items[i])

\* C16: for every data type the validator accepts, resolve gives a default
\* with listify_default true exactly when it gives one with it false; the
\* first has a list at every level of an Array and of a Structure, the
\* second has no list at any level, and the two hold the same leaves at the
\* same places.
C16_AsStated ==
    (call.fn = "resolve" /\ ~Rejected) =>
       LET plain == resolve(schema, PyNone, FALSE, TRUE, InitialHeap, 0).out
           lists == resolve(schema, PyNone, TRUE, TRUE, InitialHeap, 0).out
       IN /\ Raised(plain) <=> Raised(lists)
          /\ ~Raised(plain) /\ ~Raised(lists) =>
                /\ ~HasList(plain.default)
                /\ lists.default = Listified(lists.default)
                /\ lists.default = Listified(plain.default)

\* The names of the fields of a structure as they were declared.
Declared(node) ==
    [i \in 1..Len(node.fields.items) |->
        node.fields.items[i].items[_FIELD_NAME]]

\* Whether the dtype, the default and the view resolved for the node, and
\* those of the structures among its fields, have the fields in the order
\* of their declaration.
RECURSIVE FieldOrder(_, _, _, _)
FieldOrder(node, descriptor, default, view_) ==
    IF ~IsStructure(node) THEN TRUE
    ELSE /\ [i \in 1..Len(descriptor.items) |->
                descriptor.items[i].items[1]] = Declared(node)
         /\ default.k = "struct" => default.names = Declared(node)
         /\ Len(default.items) = Len(Declared(node))
         /\ IsSynthesized(view_) => view_._fields = Declared(node)
         /\ \A i \in 1..Len(Declared(node)) :
               FieldOrder(node.fields.items[i].items[_FIELD_TYPE],
                          descriptor.items[i].items[2],
                          default.items[i],
                          IF IsSynthesized(view_)
                          THEN view_.props[i].field_view ELSE PyNone)

\* C17: when resolve returns for a Structure, the field names of the dtype,
\* the slot names of the default, which is a named tuple when
\* listify_default is false, and the _fields of the synthesized structure
\* view are each the declared field names in the order of declaration; so
\* are those of every Structure that is the type of a field.
C17_FieldOrder ==
    (call.fn = "resolve" /\ Returns /\ IsStructure(schema)) =>
       /\ call.kwargs[2] = PyBool(FALSE) => resolved[1].default.k = "struct"
       /\ schema.view = PyNone =>
             IsSynthesized(get_element_view(resolved[1].view))
       /\ FieldOrder(schema, resolved[1].dtype.descriptor,
                     resolved[1].default,
                     get_element_view(resolved[1].view))

\* resolve returned a named tuple and a synthesized view for a structure
\* whose fields are declared out of alphabetical order and whose first
\* field is a structure declared so too.
C17_Witness ==
    /\ call.fn = "resolve"
    /\ Returns
    /\ call.kwargs[2] = PyBool(FALSE)
    /\ IsStructure(schema)
    /\ Declared(schema) = <<PyStr("b"), PyStr("a")>>
    /\ resolved[1].default.k = "struct"
    /\ resolved[1].default.names = <<PyStr("b"), PyStr("a")>>
    /\ IsStructure(schema.fields.items[1].items[_FIELD_TYPE])
    /\ resolved[1].default.items[1].names = <<PyStr("x"), PyStr("id")>>
    /\ get_element_view(resolved[1].view)._fields
          = <<PyStr("b"), PyStr("a")>>

\* The Number nodes of the data type and the kinds they name.
NumberNodes == {node \in Subtrees(schema) : node.k = "node"
                                            /\ node.cls = "Number"}

KindOf(node) == IF node.type = PyNone THEN "None" ELSE node.type.name

NumericKinds == {"int", "float", "complex", "int8", "uint8", "float64"}

ExcludedKinds ==
    {"None", "bool_", "object_", "string_", "unicode_", "object", "str",
     "bytes"}

\* C18 as stated: the validator rejects every data type with a Number of a
\* boolean kind, Python's bool or NumPy's, of an object kind or of a string
\* kind, and accepts the integer, real and complex kinds.
C18_AsStated ==
    call.fn = "_check_data_type" =>
       /\ (\E node \in NumberNodes :
              KindOf(node) \in ExcludedKinds \cup {"bool"}) =>
             /\ call.out # Nothing
             /\ call.out.exc = "TypeError"
       /\ (IsAtomic(schema) /\ NumberNodes = {schema}
           /\ KindOf(schema) \in NumericKinds) =>
             call.out = Nothing

\* C18: the validator rejects with a TypeError every data type with a
\* Number whose kind is NumPy's boolean, an object kind, a string kind or
\* None, and accepts a Number of an integer, real or complex kind and one
\* of Python's bool, which is a subclass of int; resolve returns for those
\* it accepts.
C18_NumberKinds ==
    /\ call.fn = "_check_data_type" =>
          /\ (\E node \in NumberNodes : KindOf(node) \in ExcludedKinds) =>
                /\ call.out # Nothing
                /\ call.out.exc = "TypeError"
          /\ (IsAtomic(schema) /\ NumberNodes = {schema}
              /\ KindOf(schema) \in NumericKinds \cup {"bool"}) =>
                call.out = Nothing
    /\ (call.fn = "resolve" /\ IsAtomic(schema) /\ NumberNodes = {schema}) =>
          Returns <=> KindOf(schema) \in NumericKinds \cup {"bool"}

\* The validator was given a Number of Python's bool and accepted it.
C18_Witness ==
    /\ call.fn = "_check_data_type"
    /\ schema = Number(PyClass("bool"), PyInt(0), PyNone)
    /\ call.out = Nothing

\* Whether the shape is a negative integer or a tuple with an entry that
\* is negative or not an integer.
BadShape(shape) ==
    \/ shape.k = "int" /\ shape.v < 0
    \/ /\ shape.k = "tuple"
       /\ \E i \in 1..Len(shape.items) :
             \/ shape.items[i].k # "int"
             \/ shape.items[i].v < 0

\* C19: the validator rejects every data type with an Array whose shape is
\* a negative integer or a tuple with a negative or a non-integer entry.
C19_AsStated ==
    (call.fn = "_check_data_type"
     /\ \E node \in Subtrees(schema) :
           IsArray(node) /\ BadShape(node.shape)) =>
       call.out # Nothing

\* C20: the error for repeated field names lists each repeated name once,
\* in the singular form when one name is repeated and in the plural form
\* when two or more are.
C20_AsStated ==
    (call.fn = "_check_data_type" /\ call.out # Nothing
     /\ call.out.exc = "ValueError") =>
       LET names == call.out.names
           distinct == {names[i] : i \in 1..Len(names)}
       IN /\ Len(names) = Cardinality(distinct)
          /\ Cardinality(distinct) = 1
                <=> call.out.msg = "field provided multiple times"
          /\ Cardinality(distinct) > 1
                <=> call.out.msg = "fields provided multiple times"

\* The name a node goes by in a dotted path, lines 771 to 773.
PathName(node) ==
    IF "name" \in DOMAIN node /\ Truthy(node.name) THEN NameOf(node.name)
    ELSE TypeOf(node)

\* C21: every error the validator raises for a data type that is a node
\* carries a dotted path, which starts at the name of the root node.
C21_AsStated ==
    (call.fn = "_check_data_type" /\ IsNode(schema)
     /\ call.out # Nothing) =>
       /\ call.out.path # <<>>
       /\ call.out.path[1] = PathName(schema)

\* The tree with a Bool in place of every class given for a data type.
RECURSIVE Healed(_)
Healed(tree) ==
    IF tree.k = "class" THEN Bool(PyBool(FALSE), PyNone)
    ELSE IF ~IsNode(tree) THEN tree
    ELSE IF IsArray(tree) THEN [tree EXCEPT !.element_type = Healed(@)]
    ELSE IF IsStructure(tree) /\ IsTupleLike(tree.fields)
    THEN [tree EXCEPT !.fields.items =
             [i \in 1..Len(@) |->
                 IF IsTupleLike(@[i]) /\ Len(@[i].items) >= _FIELD_TYPE
                 THEN [@[i] EXCEPT !.items[_FIELD_TYPE] = Healed(@)]
                 ELSE @[i]]]
    ELSE tree

\* The dotted paths of the nodes that hold a class for a data type, each
\* with the attribute that holds it.
RECURSIVE ClassHolders(_, _)
ClassHolders(tree, parent_path) ==
    IF ~IsNode(tree) THEN {}
    ELSE LET full_path == Append(parent_path, PathName(tree))
         IN IF IsArray(tree)
            THEN (IF tree.element_type.k = "class"
                  THEN {<<full_path, "element_type">>} ELSE {})
                 \cup ClassHolders(tree.element_type, full_path)
            ELSE UNION
                 {(IF NamedFields(tree)[i].items[_FIELD_TYPE].k = "class"
                   THEN {<<full_path, "fields">>} ELSE {})
                  \cup ClassHolders(
                           NamedFields(tree)[i].items[_FIELD_TYPE],
                           Append(full_path,
                                  NameOf(NamedFields(tree)[i]
                                            .items[_FIELD_NAME]))) :
                  i \in {j \in 1..Len(NamedFields(tree)) :
                            Len(NamedFields(tree)[j].items) >= _FIELD_TYPE}}

\* The validator was given a node whose one defect is a class for a data
\* type somewhere below it.
OnlyClassBelow ==
    /\ call.fn = "_check_data_type"
    /\ IsNode(schema)
    /\ \E t \in Subtrees(schema) : t.k = "class"
    /\ _check_data_type(Healed(schema), <<>>) = Nothing

\* C22 as stated: a class for the element type of an Array or for the type
\* of a field is reported with the message for a nested data type, 'The
\* data type for <path> is expected to be an instance object', naming the
\* path of the parent.
C22_AsStated ==
    OnlyClassBelow =>
       /\ call.out # Nothing
       /\ call.out.msg = "data type for path expected an instance"
       /\ \E holder \in ClassHolders(schema, <<>>) :
             call.out.path = holder[1]

\* C22: a class given for a data type is rejected with a TypeError at the
\* root, as the element type of an Array and as the type of a field.  At the
\* root the message is the one without a path.  Below the root it is the
\* message of the parent's own check, of its element_type attribute or of
\* the second element of its field, with the path of the parent and the
\* type 'type'; the message for a nested data type is never used.
C22_ClassRejected ==
    call.fn = "_check_data_type" =>
       /\ (\E t \in Subtrees(schema) : t.k = "class") =>
             /\ call.out # Nothing
             /\ call.out.exc = "TypeError"
       /\ schema.k = "class" =>
             /\ call.out.msg = "data type expected an instance"
             /\ call.out.path = <<>>
             /\ call.out.names = <<schema.name>>
       /\ OnlyClassBelow =>
             /\ call.out.msg \in {"expected an instance object of type",
                                  "field type expected to be a data type"}
             /\ call.out.names = <<"type">>
             /\ <<call.out.path, call.out.attr>>
                   \in ClassHolders(schema, <<>>)
       /\ call.out # Nothing =>
             call.out.msg # "data type for path expected an instance"

\* The validator was given a structure inside an array, the type of whose
\* field is a class, and reported the field.
C22_Witness ==
    /\ OnlyClassBelow
    /\ IsArray(schema)
    /\ call.out # Nothing
    /\ call.out.msg = "field type expected to be a data type"
    /\ Len(call.out.path) = 2
    /\ call.out.path[2] = "Star"

\* The variants of nani found in the ancestry of the class of a node.
Variants(node) ==
    {Mro(TypeOf(node))[i] : i \in 1..Len(Mro(TypeOf(node)))} \cap AllTypes

\* The tree with every node made an instance of the first variant of its
\* ancestry, with the attributes of that variant and no other.
RECURSIVE AsVariant(_)
AsVariant(tree) ==
    IF ~IsNode(tree) \/ Variants(tree) = {} THEN tree
    ELSE LET bases == Mro(TypeOf(tree))
             base == bases[CHOOSE i \in 1..Len(bases) :
                              /\ bases[i] \in AllTypes
                              /\ \A j \in 1..(i - 1) :
                                    bases[j] \notin AllTypes]
             names == {"k", "cls"}
                      \cup {NodeFields(base)[i] :
                               i \in 1..Len(NodeFields(base))}
             plain == [name \in names |->
                          IF name = "cls" THEN base ELSE tree[name]]
         IN IF base = "Array"
            THEN [plain EXCEPT !.element_type = AsVariant(@)]
            ELSE IF base = "Structure" /\ IsTupleLike(tree.fields)
            THEN [plain EXCEPT !.fields.items =
                     [i \in 1..Len(@) |->
                         IF IsTupleLike(@[i]) /\ Len(@[i].items) >= _FIELD_TYPE
                         THEN [@[i] EXCEPT
                                  !.items[_FIELD_TYPE] = AsVariant(@)]
                         ELSE @[i]]]
            ELSE plain

Derived == \E t \in Subtrees(schema) : IsNode(t) /\ TypeOf(t) \notin AllTypes

\* What is left of an error once the names in its path are set aside.
Kind(error) ==
    IF error = Nothing THEN <<"none">>
    ELSE <<error.exc, error.msg, Len(error.path), error.attr, error.names>>

FieldDefect(field) ==
    IF ~IsInstance(field, {"tuple"}) THEN "field expected to be a tuple"
    ELSE IF Len(field.items) \notin _FIELD_EXPECTED_ARGUMENT_COUNTS
    THEN "field expected to be compatible with Field"
    ELSE IF field.items[_FIELD_NAME].k # "str"
    THEN "field name expected to be a string"
    ELSE IF ~IsNode(field.items[_FIELD_TYPE])
            \/ Variants(field.items[_FIELD_TYPE]) = {}
    THEN "field type expected to be a data type"
    ELSE IF Len(field.items) >= _FIELD_READ_ONLY
            /\ field.items[_FIELD_READ_ONLY].k # "bool"
    THEN "field read_only expected to be a bool"
    ELSE "none"

\* What the validator raises for the i-th field: the defect of the field
\* itself, or else what it raises for the type of the field.
FieldError(node, i) ==
    LET field == node.fields.items[i]
    IN IF FieldDefect(field) # "none"
       THEN <<"TypeError", FieldDefect(field), 1, "fields">>
       ELSE LET below == _check_data_type(
                             field.items[_FIELD_TYPE],
                             <<PathName(node), field.items[_FIELD_NAME].v>>)
            IN IF below = Nothing THEN <<"none">>
               ELSE <<below.exc, below.msg, Len(below.path), below.attr>>

\* C24: the validator raises the first error of a fixed order.  For a node
\* with an attribute that breaks its contract it is the error of the first
\* such contract, whatever lies below the node.  Otherwise, for an Array it
\* is the error of the element type, and for a Structure the error of the
\* first field, in the order of declaration, that has one, be it a defect
\* of the field itself (the tuple, its length, the name, the type,
\* read_only, in that order) or an error of the field's type; the error of
\* repeated names is raised only when no field has any.
C24_FirstError ==
    (call.fn = "_check_data_type" /\ IsNode(schema)
     /\ Variants(schema) # {}) =>
       LET checks == _TYPE_ATTRIBUTE_CHECKS(_find_base_type(schema))
           own == [i \in 1..Len(checks) |->
                      CheckAttribute(schema, checks[i],
                                     <<PathName(schema)>>)]
           broken == {i \in 1..Len(checks) : own[i] # Nothing}
           found == IF call.out = Nothing THEN <<"none">>
                    ELSE <<call.out.exc, call.out.msg, Len(call.out.path),
                           call.out.attr>>
       IN IF broken # {}
          THEN call.out = own[CHOOSE i \in broken : \A j \in broken : i <= j]
          ELSE IF IsArray(schema)
          THEN call.out = _check_data_type(schema.element_type,
                                           <<PathName(schema)>>)
          ELSE IF IsStructure(schema)
          THEN LET count == Len(schema.fields.items)
                   bad == {i \in 1..count :
                              FieldError(schema, i) # <<"none">>}
               IN IF bad # {}
                  THEN found = FieldError(schema,
                                   CHOOSE i \in bad : \A j \in bad : i <= j)
                  ELSE IF RepeatedNames(schema) # {}
                  THEN /\ call.out # Nothing
                       /\ call.out.exc = "ValueError"
                  ELSE call.out = Nothing
          ELSE call.out = Nothing

\* The validator was given a structure that names a field twice and whose
\* first field has a type with a defect two levels down, and raised the
\* TypeError of that defect.
C24_Witness ==
    /\ call.fn = "_check_data_type"
    /\ IsStructure(schema)
    /\ RepeatedNames(schema) # {}
    /\ call.out # Nothing
    /\ call.out.exc = "TypeError"
    /\ Len(call.out.path) = 3

\* The field of the last field read or assignment: its position among the
\* declared fields, its type, the row it belongs to and its cell.
TouchedIndex ==
    LET fields == _consolidate(schema).fields.items
    IN CHOOSE n \in 1..Len(fields) :
          fields[n].items[_FIELD_NAME] = last.args[2]

TouchedType ==
    _consolidate(schema).fields.items[TouchedIndex].items[_FIELD_TYPE]

TouchedRow ==
    Segment(instances[last.self].buffer.buf, <<last.args[1].v>>)

TouchedCell == <<last.args[1].v, TouchedIndex>>

\* C25: in a structure view the property of the i-th declared field reads
\* cell i of the wrapped row: the cell itself when the field's type has no
\* view, field_view(row, i) when an atomic type has one, and
\* field_view(row[i]), over the memory of the cell, for a composite type;
\* an assignment to a writable field writes the value into cell i of the
\* row, so that the cell holds the value last assigned, and leaves every
\* other cell of every buffer as it was.
C25_FieldProperties ==
    LET b == instances[last.self].buffer.buf
    IN /\ LastOp = "getfield" =>
             IF IsAtomic(TouchedType)
             THEN IF TouchedType.view = PyNone
                  THEN last.out = CellAt(buffers[b], TouchedCell)
                  ELSE last.out = [k |-> "instance",
                                   cls |-> TouchedType.view,
                                   args |-> <<TouchedRow,
                                              PyInt(TouchedIndex)>>]
             ELSE /\ last.out.k = "instance"
                  /\ last.out._data = Segment(b, TouchedCell)
                  /\ IsSynthesized(last.out.cls)
                  /\ __iter__(last.out, buffers)
                        = CellAt(buffers[b], TouchedCell)
       /\ LastOp = "setfield" /\ ~Raised(last.out) =>
             /\ CellAt(buffers[b], TouchedCell) = last.args[3]
             /\ \A c \in 1..Len(buffers) :
                   \A row \in 1..Len(buffers[c].items) :
                      \A i \in 1..Len(buffers[c].items[row].items) :
                         <<c, row, i>> # <<b>> \o TouchedCell =>
                            CellAt(buffers[c], <<row, i>>)
                               = CellAt(last.before[c], <<row, i>>)
             /\ \A c \in 1..Len(buffers) :
                   Len(buffers[c].items) = Len(last.before[c].items)

\* C25 witness: a second assignment to a field replaced the ones the first
\* had written by twos, and the cells of the other fields of the row are
\* the zeros they were allocated with.
C25_Witness ==
    /\ LastOp = "setfield"
    /\ ~Raised(last.out)
    /\ writes = 2
    /\ LET b == instances[last.self].buffer.buf
       IN /\ CellAt(last.before[b], TouchedCell)
                = Filled(last.args[3], PyInt(1))
          /\ CellAt(buffers[b], TouchedCell) = Filled(last.args[3], PyInt(2))
          /\ \A i \in 1..Len(buffers[b].items[last.args[1].v].items) :
                i # TouchedIndex =>
                   LET cell == CellAt(buffers[b], <<last.args[1].v, i>>)
                   IN cell = Filled(cell, PyInt(0))

\* What reading an element through a view shows: the cell itself, or the
\* cell that the element view was given, as an array or as an array and an
\* index.
Shown(out) ==
    IF out.k # "instance" THEN out
    ELSE IF "_data" \in DOMAIN out
    THEN CellAt(buffers[out._data.buf], out._data.path)
    ELSE IF Len(out.args) = 2
    THEN CellAt(buffers[out.args[1].buf],
                Append(out.args[1].path, out.args[2].v))
    ELSE CellAt(buffers[out.args[1].buf], out.args[1].path)

\* The views that wrap the buffer of the view last worked through.
Sharing == {w \in Views : instances[w].buffer = instances[last.self].buffer}

\* C26: the views keep the array they were given, not a copy; an indexed
\* write through any of them, whatever the types and strategies of the
\* views on the array and whatever was written before, leaves the buffers
\* as the same write made on the array itself does: the addressed element
\* holds the value, every other element of every buffer is what it was,
\* no length has changed; and an indexed read through any view on the
\* array shows the element as it is now.
C26_SharedBuffer ==
    /\ \A v \in Views : instances[v].obj._data = instances[v].buffer
    /\ LastOp = "setitem" =>
          LET b == instances[last.self].buffer.buf
              i == last.args[1].v
          IN /\ last.out = PyNone
             /\ buffers = DataSetItem(Segment(b, <<>>), i, last.args[2],
                                      last.before)
             /\ CellAt(buffers[b], <<i>>) = last.args[2]
             /\ \A c \in 1..Len(buffers) :
                   /\ Len(buffers[c].items) = Len(last.before[c].items)
                   /\ \A j \in 1..Len(buffers[c].items) :
                         <<c, j>> # <<b, i>> =>
                            buffers[c].items[j] = last.before[c].items[j]
             /\ \A w \in Sharing :
                   Shown(__getitem__(instances[w].obj, i, buffers))
                      = last.args[2]
    /\ LastOp = "getitem" =>
          Shown(last.out)
             = CellAt(buffers[instances[last.self].buffer.buf],
                      <<last.args[1].v>>)

\* C26 witness: two views of different types and strategies wrap one
\* array of several elements; a write through one of them has replaced the
\* ones of an earlier write by twos, and the other view shows the twos.
C26_Witness ==
    /\ LastOp = "setitem"
    /\ writes = 2
    /\ Len(CellsOf(last.self).items) > 1
    /\ CellAt(last.before[instances[last.self].buffer.buf],
              <<last.args[1].v>>) = Filled(last.args[2], PyInt(1))
    /\ last.args[2] = Filled(last.args[2], PyInt(2))
    /\ \E w \in Sharing :
          /\ instances[w].obj.cls.mixin
                # instances[last.self].obj.cls.mixin
          /\ Shown(__getitem__(instances[w].obj, last.args[1].v, buffers))
                = last.args[2]

\* The iterators as they were before the last operation.
IteratorsBefore == last.args[1]

\* An iterator has been opened at the address; it has yielded as many
\* elements as its view has.
Open(a) == a \in Iterators

Exhausted(a) ==
    a \in Iterators /\ heap[a].pos = DataLen(heap[a].self._data, buffers)

\* What the iterators are and what asking one for its next element does.
Iterating ==
    /\ \A a \in Iterators :
          heap[a].pos <= DataLen(heap[a].self._data, buffers)
    /\ LastOp = "iter" =>
          /\ heap[last.self].pos = 0
          /\ heap[last.self].self = instances[last.args[2].v].obj
          /\ \A c \in 1..Len(IteratorsBefore) : heap[c] = IteratorsBefore[c]
          /\ buffers = last.before
    /\ LastOp = "next" =>
          LET it == IteratorsBefore[last.self]
          IN /\ IF it.pos < DataLen(it.self._data, buffers)
                THEN /\ last.out = __getitem__(it.self, it.pos + 1, buffers)
                     /\ heap[last.self] = [it EXCEPT !.pos = it.pos + 1]
                ELSE /\ last.out = StopIteration
                     /\ heap[last.self] = it
             /\ \A c \in 1..Len(heap) :
                   c # last.self => heap[c] = IteratorsBefore[c]
             /\ Len(heap) = Len(IteratorsBefore)
             /\ buffers = last.before

\* C27: every iter(view) makes a new iterator standing before the first
\* element and leaves the iterators already open where they stand; next on
\* an iterator that has yielded i elements of the len(buffer) there are
\* yields what view[i] gives (counting from 0) and moves that iterator
\* alone, and after len(buffer) elements it raises StopIteration and goes
\* on doing so; a loop that keeps asking an open iterator for its next
\* element gets to that end.
C27_Iteration ==
    /\ []Iterating
    /\ \A a \in IteratorSlots : Open(a) ~> Exhausted(a)

\* C27 witness: an iterator over a view of several elements, each of them
\* different, has been told to stop, while another iterator over the same
\* view, opened before it came to its end, still stands after the first
\* element.
C27_Witness ==
    /\ LastOp = "next"
    /\ last.out = StopIteration
    /\ Exhausted(last.self)
    /\ heap[last.self].pos > 1
    /\ \A i, j \in 1..Len(buffers[1].items) :
          i # j => buffers[1].items[i] # buffers[1].items[j]
    /\ \E c \in Iterators :
          /\ c < last.self
          /\ heap[c].self = heap[last.self].self
          /\ heap[c].pos = 1

\* A default with every list object replaced by what it holds.
RECURSIVE Contents(_, _)
Contents(value, h) ==
    IF value.k = "ref"
    THEN PyList([i \in 1..Len(h[value.a]) |-> Contents(h[value.a][i], h)])
    ELSE IF value.k \in {"tuple", "list", "struct"}
    THEN [value EXCEPT !.items = [i \in 1..Len(value.items) |->
                                     Contents(value.items[i], h)]]
    ELSE value

\* A view class without the identity of the class object and of the classes
\* synthesized for its elements and fields: its name, its mixin, its field
\* names and the getters and setters of its properties.
RECURSIVE Make(_)
Make(view_) ==
    IF ~IsSynthesized(view_) THEN view_
    ELSE [view_ EXCEPT
             !.id = 0,
             !._element_view = IF view_._element_view = Nothing THEN Nothing
                               ELSE Make(view_._element_view),
             !.props = [i \in 1..Len(view_.props) |->
                           [view_.props[i] EXCEPT
                               !.field_view = Make(view_.props[i].field_view)]]]

\* The view classes synthesized for a view, itself included.
RECURSIVE Synthesized(_)
Synthesized(view_) ==
    IF ~IsSynthesized(view_) THEN {}
    ELSE {view_}
         \cup (IF view_._element_view = Nothing THEN {}
               ELSE Synthesized(view_._element_view))
         \cup UNION {Synthesized(view_.props[i].field_view) :
                        i \in 1..Len(view_.props)}

\* The caller changed no list object since the first resolve call.
Untouched == mutations = 0 \/ (mutations = 1 /\ last.calls = 0)

\* C28: resolve calls on one schema with the same name and listify_default
\* return the same dtype, view classes of the same make (name, strategy,
\* field names, properties) none of which is a class object of another call,
\* and, as long as no list object was changed by the caller between the
\* calls or after them, defaults of the same contents; the calls leave the
\* schema and its list objects as they were.
C28_Deterministic ==
    /\ call # NoCall => call.arg = schema /\ call.after = schema
    /\ \A a \in 1..Len(InitialHeap) :
          heap[a] = IF mutations = 0 THEN InitialHeap[a]
                    ELSE IF mutations = 1 /\ last.a # a THEN last.before[a]
                    ELSE heap[a]
    /\ \A n, m \in Returned :
          (n # m /\ call.kwargs[n] = call.kwargs[m]) =>
             /\ resolved[n].dtype = resolved[m].dtype
             /\ Make(resolved[n].view) = Make(resolved[m].view)
             /\ resolved[n].view # resolved[m].view
             /\ Synthesized(resolved[n].view)
                   \cap Synthesized(resolved[m].view) = {}
             /\ Untouched =>
                   Contents(resolved[n].default, heap)
                      = Contents(resolved[m].default, heap)

\* C28 witness: two calls with listify_default on an array of structures
\* whose list default the caller had appended to returned; their view
\* classes differ and each default holds list objects of its own, which
\* hold what was appended.
C28_Witness ==
    /\ Returned = {1, 2}
    /\ call.kwargs = <<PyBool(TRUE), PyBool(TRUE)>>
    /\ mutations = 1
    /\ last.calls = 0
    /\ \A a \in Refs(resolved[1].default) : heap[a] = <<PyStr("local")>>
    /\ IsArray(schema)
    /\ IsStructure(schema.element_type)
    /\ resolved[1].view # resolved[2].view
    /\ Refs(resolved[1].default) # {}
    /\ Refs(resolved[1].default) \cap Refs(resolved[2].default) = {}
    /\ Contents(resolved[1].default, heap)
          = Contents(resolved[2].default, heap)

\* The schema is an array whose shape is an integer n >= 0 or the tuple
\* (n,), resolve was the last call, and n.
OneDimensional ==
    /\ call.fn = "resolve"
    /\ _find_base_type(schema) = "Array"
    /\ \/ schema.shape.k = "int" /\ schema.shape.v >= 0
       \/ /\ schema.shape.k = "tuple"
          /\ Len(schema.shape.items) = 1
          /\ schema.shape.items[1].k = "int"
          /\ schema.shape.items[1].v >= 0

Extent ==
    IF schema.shape.k = "int" THEN schema.shape.v ELSE schema.shape.items[1].v

\* The same array with its shape written the other way.
Respelled ==
    [schema EXCEPT !.shape = IF schema.shape.k = "int"
                             THEN PyTuple(<<schema.shape>>)
                             ELSE schema.shape.items[1]]

\* C29: an array of shape n and the array of shape (n,) that is otherwise
\* the same resolve alike, with the same arguments: both calls raise the
\* same error or both return, and then the same dtype, defaults of the same
\* contents and view classes of the same make; the default is a sequence of
\* n elements, each with the contents of the element type's default, no two
\* of them sharing a list object with each other or with that default.
C29_IntegerShape ==
    OneDimensional =>
        LET other == resolve(Respelled, call.kwargs[1], call.kwargs[2].v,
                             TRUE, InitialHeap, 0)
            element == _resolve_default(_consolidate(schema).element_type,
                                        call.kwargs[2].v, InitialHeap)
        IN IF Raised(resolved[1])
           THEN other.out = resolved[1]
           ELSE /\ ~Raised(other.out)
                /\ other.out.dtype = resolved[1].dtype
                /\ Contents(other.out.default, other.heap)
                      = Contents(resolved[1].default, heap)
                /\ Make(other.out.view) = Make(resolved[1].view)
                /\ resolved[1].default.k
                      = (IF call.kwargs[2].v THEN "list" ELSE "tuple")
                /\ Len(resolved[1].default.items) = Extent
                /\ \A i \in 1..Extent :
                      /\ Contents(resolved[1].default.items[i], heap)
                            = Contents(element.val, InitialHeap)
                      /\ Refs(resolved[1].default.items[i])
                            \cap Refs(element.val) = {}
                      /\ \A j \in 1..Extent :
                            i # j => Refs(resolved[1].default.items[i])
                                       \cap Refs(resolved[1].default.items[j])
                                         = {}

\* C29 witness: an array of shape 2 of a type whose default is a list
\* object resolved to a default of two list objects, neither of them that
\* one, as the array of shape (2,) does.
C29_Witness ==
    /\ OneDimensional
    /\ schema.shape = PyInt(2)
    /\ schema.element_type = Leaf
    /\ ~Raised(resolved[1])
    /\ Cardinality(Refs(resolved[1].default)) = 2
    /\ Respelled.shape = PyTuple(<<PyInt(2)>>)
    /\ ~Raised(resolve(Respelled, call.kwargs[1], call.kwargs[2].v, TRUE,
                       InitialHeap, 0).out)

\* C30: when resolve returns, the dtype and the default are those of the
\* data type it was given, as the dtype and default resolvers give them for
\* that data type alone, and not those of the array of shape -1 that
\* resolve wraps it in: the dtype is no pair of an element dtype and -1, the
\* default is no sequence made for that array, and no list object was
\* allocated but for the default of the data type; the view is the array
\* view of that array, its element view being the view of the data type.
C30_SentinelShape ==
    (call.fn = "resolve" /\ Returns) =>
        LET tree == _consolidate(schema)
            own == _resolve_default(tree, call.kwargs[2].v, InitialHeap)
            wrapped == _resolve_default(RootNode(call.kwargs[1]),
                                        call.kwargs[2].v, InitialHeap)
        IN /\ resolved[1].dtype = NumpyDtype(_resolve_dtype(tree))
           /\ resolved[1].dtype.descriptor
                 # PyTuple(<<_resolve_dtype(tree), PyInt(-1)>>)
           /\ resolved[1].default = own.val
           /\ heap = own.heap
           /\ IsAtomic(tree) =>
                 /\ resolved[1].default.k \notin {"tuple", "list", "struct"}
                 /\ resolved[1].default # wrapped.val
           /\ IsSynthesized(resolved[1].view)
           /\ resolved[1].view.mixin \in _ARRAY_MIXINS
           /\ Strategies(resolved[1].view, RootNode(call.kwargs[1]))
           /\ get_element_view(resolved[1].view) = _resolve_view(tree, 0).val

\* C30 witness: resolve returned for a number with a view: the dtype is the
\* number's own class, the default its own scalar, and the view an array
\* view over the number's view called by the name given.
C30_Witness ==
    /\ call.fn = "resolve"
    /\ Returns
    /\ schema = Flagged
    /\ call.kwargs[1] = PyStr("Grid")
    /\ resolved[1].dtype = NumpyDtype(PyClass("uint8"))
    /\ resolved[1].default = Coerce("uint8", PyInt(0))
    /\ resolved[1].view.name = "Grid"
    /\ resolved[1].view.mixin = "_IndirectAtomicArrayViewMixin"
    /\ get_element_view(resolved[1].view) = PyClass("Flag")
====
